---- MODULE Spec2Model ----
(***************************************************************************)
(* pyFTP-server: the connection counter, the port-availability cache, the  *)
(* configuration validation, the configuration file and the FTP server     *)
(* manager's start/stop lifecycle, as state machines.                      *)
(*                                                                         *)
(*   SpecCounter  ConnectionCounter under concurrent callers: every call   *)
(*                is acquire lock / compute / store / save+release.        *)
(*   Spec         FTPServerManager.start_server / stop_server, the serve   *)
(*                thread and the other processes that bind ports.          *)
(*   SpecWindow   the window's start flow: validate, probe through the     *)
(*                port cache, then start.                                  *)
(*   SpecHandler  the manager while clients connect: the engine delivers   *)
(*                the handler callbacks.                                   *)
(*   SpecConcurrent  start_server and stop_server called from two threads  *)
(*                at once, each call advancing line by line.               *)
(*   SpecCache    PortCache called directly while the clock advances and   *)
(*                other processes bind and release ports.                  *)
(*   SpecFault    the manager in a process where Thread.start() can raise. *)
(*   SpecServe    the serve thread iteration by iteration, with fairness.  *)
(*   SpecValidate the validation functions applied to configs.             *)
(*   SpecConfig   ConfigManager.save_config / load_config, the file as     *)
(*                text, while the clock advances.                          *)
(*   SpecErrors   start_server and save_config given invalid configs.      *)
(***************************************************************************)
EXTENDS Integers, Sequences, FiniteSets, TLC

\* ---------------------------------------------------------------- constants
MIN_PORT == 1
MAX_PORT == 65535
MIN_PASSIVE_PORT == 1024
MAX_PASSIVE_PORT == 65535
DEFAULT_PORT == 2121
DEFAULT_PASSIVE_START == 60000
\* PortCache(cache_ttl=60) built by get_port_cache()
cache_ttl == 60
\* ConfigManager._cache_ttl
config_cache_ttl == 30
DEFAULT_ENCODING_IDX == 0
DEFAULT_THREADING_IDX == 1
\* GuiLogPanel.batch_size and LogPanel.max_lines
batch_size == 50
max_lines == 5000

\* ------------------------------------------------------------------- bounds
\* callback threads calling the counter concurrently
NumCallers == 2
\* counter calls issued since the counter was last set by construction/reset
MaxOps == 3
\* largest count a persisted record of an earlier run holds
MaxPersisted == 1
\* engine instances constructed in one run of the process
MaxEngines == 2
\* cap of the connection count in the lifecycle specification
MaxCount == 2
\* the clock of the port cache runs up to MaxTicks * cache_ttl seconds
MaxTicks == 2
\* messages given to the log panel while its buffering is followed
MaxLogs == 55
\* messages given to the log panel while its filter is followed
MaxLines == 2
\* records handed to QtLogHandler.emit
MaxRecords == 4
\* the max_buffer_size the QtLogHandler is constructed with
max_buffer_size == 2

\* connection_count.json does not exist
NoRecord == <<>>
Callers == 1..NumCallers

Max(a, b) == IF a >= b THEN a ELSE b

VARIABLES
    \* ConnectionCounter
    count,          \* self._count
    dirty,          \* self._dirty
    record,         \* <<count>> stored in connection_count.json, NoRecord if no file
    lock,           \* holder of self._lock: 0 when free, else the caller
    pc,             \* position of each caller inside its counter call
    op,             \* the call each caller is executing
    tmp,            \* the value a caller computed, 0 outside a call
    observed,       \* the value the last get_count() returned
    nInc, nDec,     \* increments / decrements applied since construction or the last reset
    nFloor,         \* of those decrements, how many ran while the count was 0
    base,           \* the count at construction or after the last reset
    \* FTPServerManager and the engines it built
    ftp_server_thread,  \* 0 for None, else the id of the FTPServerThread
    server_instance,    \* 0 for None, else the id of the engine
    engines,            \* id -> [port, listening, started, alive, stop_event, serving, conns]
    handler,            \* class attributes of CustomFTPHandler
    \* environment
    occupied,       \* ports bound by other processes
    cache,          \* PortCache._cache: port -> [avail, ts]
    now,            \* time.time()
    asked,          \* the latest is_port_available call whose entry was not removed since: port, time, answer
    \* ConfigManager
    config_file,        \* the [server] section of ftpserver.ini as written: option -> text, NoFile if absent
    config_cache,       \* self._config_cache: None or the dict of the latest load
    cache_timestamp,    \* self._cache_timestamp
    saved,              \* the config of the latest save_config call that passed validation
    \* PortCache without housekeeping
    uncleaned,          \* what PortCache._cache would hold had cleanup_expired never been called
    cpc,                \* position of each caller inside a PortCache.is_port_available call, with its locals
    \* GuiLogPanel
    log_view,           \* the lines of self.log_view, oldest first
    log_buffer,         \* self.log_buffer
    buffer_timer,       \* self._buffer_timer: "unset" before it is created, else "active" or "stopped"
    appended,           \* how many messages append_log has been given
    cleared_upto,       \* how many of them had been given when clear_log last ran
    \* FTPWindow
    status_update_timer,    \* self.status_update_timer: "active" or "stopped"
    log_handler,            \* self.log_handler is set and is among the handlers of the root logger
    closed,                 \* a close event of the window was accepted
    \* QtLogHandler
    handler_buffer,     \* self.buffer of the QtLogHandler, oldest record first
    batch_timer,        \* self.batch_timer.isActive()
    log_signal,         \* the records emitted through log_signal, in order
    emit_pc,            \* position of each thread inside QtLogHandler.emit
    emit_calls,         \* how many records emit has appended to the buffer
    \* threads calling the manager concurrently
    mpc,            \* position of the start call and of the stop call in progress, and the start's config
    \* call record
    last,           \* the manager call that has just returned, with what it saw
    stopped         \* a stop of a running manager succeeded and no start was attempted since

counterVars == <<count, dirty, record, lock, pc, op, tmp, observed, nInc, nDec, nFloor, base>>
managerVars == <<ftp_server_thread, server_instance, engines, handler>>
configVars == <<config_file, config_cache, cache_timestamp, saved>>
panelVars == <<log_view, log_buffer, buffer_timer, appended, cleared_upto>>
coreVars == <<counterVars, managerVars, occupied, cache, now, asked, mpc, configVars, stopped>>
cacheAux == <<uncleaned, cpc>>
windowVars == <<status_update_timer, log_handler, closed>>
qtVars == <<handler_buffer, batch_timer, log_signal, emit_pc, emit_calls>>
auxVars == <<cacheAux, panelVars, windowVars, qtVars>>
envVars == <<occupied, cache, now, asked, mpc, config_file, config_cache, cache_timestamp, saved, auxVars>>
vars == <<count, dirty, record, lock, pc, op, tmp, observed, nInc, nDec, nFloor, base,
          ftp_server_thread, server_instance, engines, handler,
          occupied, cache, now, configVars, asked, mpc, config_file, config_cache, cache_timestamp, saved,
          auxVars,
          last, stopped>>

\* no ftpserver.ini
NoFile == [absent |-> TRUE]
\* Python's None
None == [none |-> TRUE]

\* ------------------------------------------------------- ConnectionCounter
\* _load_count: the count of the record when the file exists, else 0
load_count(rec) == IF rec = NoRecord THEN 0 ELSE rec[1]

increment_value(c) == c + 1

\* a decrement without the floor at zero
decrement_unfloored(c) == c - 1

decrement_value(c) == Max(0, c - 1)

\* a reset that leaves the count as it is
reset_value_keeps(c) == c

reset_value(c) == 0

new_value(o, c) ==
    CASE o = "increment" -> increment_value(c)
      [] o = "decrement" -> decrement_value(c)
      [] o = "reset"     -> reset_value(c)

CounterOps == {"increment", "decrement", "reset"}

Issued == nInc + nDec + Cardinality({t \in Callers : pc[t] \in {"locked", "computed"} /\ op[t] # "reset"})

\* a caller that enters without waiting for the lock
acquire_unlocked(t, o) ==
    /\ pc[t] = "idle"
    /\ o = "reset" \/ Issued < MaxOps
    /\ lock' = t
    /\ pc' = [pc EXCEPT ![t] = "locked"]
    /\ op' = [op EXCEPT ![t] = o]
    /\ UNCHANGED <<count, dirty, record, tmp, observed, nInc, nDec, nFloor, base>>

\* `with self._lock:` entered by caller t for call o
acquire(t, o) ==
    /\ pc[t] = "idle"
    /\ lock = 0
    /\ o = "reset" \/ Issued < MaxOps
    /\ lock' = t
    /\ pc' = [pc EXCEPT ![t] = "locked"]
    /\ op' = [op EXCEPT ![t] = o]
    /\ UNCHANGED <<count, dirty, record, tmp, observed, nInc, nDec, nFloor, base>>

\* the right-hand side of the assignment to self._count is evaluated
compute(t) ==
    /\ pc[t] = "locked"
    /\ tmp' = [tmp EXCEPT ![t] = new_value(op[t], count)]
    /\ pc' = [pc EXCEPT ![t] = "computed"]
    /\ UNCHANGED <<count, dirty, record, lock, op, observed, nInc, nDec, nFloor, base>>

\* self._count is assigned
store(t) ==
    /\ pc[t] = "computed"
    /\ count' = tmp[t]
    /\ pc' = [pc EXCEPT ![t] = "stored"]
    /\ nInc' = CASE op[t] = "increment" -> nInc + 1 [] op[t] = "reset" -> 0 [] OTHER -> nInc
    /\ nDec' = CASE op[t] = "decrement" -> nDec + 1 [] op[t] = "reset" -> 0 [] OTHER -> nDec
    /\ nFloor' = CASE op[t] = "decrement" /\ count = 0 -> nFloor + 1
                   [] op[t] = "reset" -> 0
                   [] OTHER -> nFloor
    /\ base' = IF op[t] = "reset" THEN 0 ELSE base
    /\ UNCHANGED <<dirty, record, lock, op, tmp, observed>>

\* a counter call of caller t that has just returned: the value it computed
\* and whether its write succeeded
SaveRec(t, ok) == [op |-> "save", ok |-> ok, value |-> tmp[t]]

\* a failed write that also puts the count back to the persisted one
save_count_fails_rolls_back(t) ==
    /\ pc[t] = "stored"
    /\ count' = load_count(record)
    /\ lock' = 0
    /\ pc' = [pc EXCEPT ![t] = "idle"]
    /\ op' = [op EXCEPT ![t] = "none"]
    /\ tmp' = [tmp EXCEPT ![t] = 0]
    /\ last' = SaveRec(t, FALSE)
    /\ UNCHANGED <<record, dirty, observed, nInc, nDec, nFloor, base>>

\* _save_count when open or json.dump raises: the exception is caught and
\* logged, the record stays, then the with block releases the lock
save_count_fails(t) ==
    /\ pc[t] = "stored"
    /\ lock' = 0
    /\ pc' = [pc EXCEPT ![t] = "idle"]
    /\ op' = [op EXCEPT ![t] = "none"]
    /\ tmp' = [tmp EXCEPT ![t] = 0]
    /\ last' = SaveRec(t, FALSE)
    /\ UNCHANGED <<count, record, dirty, observed, nInc, nDec, nFloor, base>>

\* a write that stores the value the count had before the call
save_count_stale(t) ==
    /\ pc[t] = "stored"
    /\ record' = <<load_count(record)>>
    /\ lock' = 0
    /\ pc' = [pc EXCEPT ![t] = "idle"]
    /\ op' = [op EXCEPT ![t] = "none"]
    /\ tmp' = [tmp EXCEPT ![t] = 0]
    /\ last' = SaveRec(t, TRUE)
    /\ UNCHANGED <<count, dirty, observed, nInc, nDec, nFloor, base>>

\* _save_count writes the record, then the with block releases the lock
save_count(t) ==
    /\ pc[t] = "stored"
    /\ record' = <<count>>
    /\ lock' = 0
    /\ pc' = [pc EXCEPT ![t] = "idle"]
    /\ op' = [op EXCEPT ![t] = "none"]
    /\ tmp' = [tmp EXCEPT ![t] = 0]
    /\ last' = SaveRec(t, TRUE)
    /\ UNCHANGED <<count, dirty, observed, nInc, nDec, nFloor, base>>

\* get_count: the count read under the lock
get_count(t) ==
    /\ pc[t] = "idle"
    /\ lock = 0
    /\ observed' = count
    /\ UNCHANGED <<count, dirty, record, lock, pc, op, tmp, nInc, nDec, nFloor, base>>

AllIdle == \A t \in Callers : pc[t] = "idle"

CounterInit ==
    /\ record \in {NoRecord} \cup {<<n>> : n \in 0..MaxPersisted}
    /\ count = load_count(record)
    /\ dirty = FALSE
    /\ lock = 0
    /\ pc = [t \in Callers |-> "idle"]
    /\ op = [t \in Callers |-> "none"]
    /\ tmp = [t \in Callers |-> 0]
    /\ observed = count
    /\ nInc = 0 /\ nDec = 0 /\ nFloor = 0
    /\ base = count


\* ------------------------------------------------------------------ inputs
PortChoices == {0, DEFAULT_PORT, DEFAULT_PORT + 1}
PassiveStartChoices == {MIN_PASSIVE_PORT - 1, DEFAULT_PASSIVE_START, DEFAULT_PASSIVE_START + 1}
PassiveEndChoices == {DEFAULT_PASSIVE_START, DEFAULT_PASSIVE_START + 1}
DirChoices == {"/tmp", "/nonexistent"}
EncodingChoices == {"gbk"}
\* directories for which os.path.isdir is true
ExistingDirs == {"/tmp", "/tmp ", "/t%", "/t%%"}
\* ports that other processes bind and release
ForeignPorts == {DEFAULT_PORT, DEFAULT_PASSIVE_START + 1}

\* the configs a caller passes; with passive mode off the two range fields
\* hold their defaults
Configs ==
    {cfg \in [port : PortChoices, directory : DirChoices, passive : BOOLEAN,
              passive_start : PassiveStartChoices, passive_end : PassiveEndChoices,
              encoding : EncodingChoices] :
        cfg.passive \/ (cfg.passive_start = DEFAULT_PASSIVE_START
                        /\ cfg.passive_end = DEFAULT_PASSIVE_START + 1)}

\* valid configs that differ in what they configure on the handler class
SharedEncodingChoices == {"gbk", "utf-8"}
SharedConfigs ==
    [port : {DEFAULT_PORT, DEFAULT_PORT + 1}, directory : {"/tmp", "/tmp "},
     passive : {FALSE}, passive_start : {DEFAULT_PASSIVE_START},
     passive_end : {DEFAULT_PASSIVE_START + 1}, encoding : SharedEncodingChoices]

\* the configs handed to the validation functions: every field at, just
\* inside and just outside its limits, the range fields also with passive off
ValidatePortChoices == {MIN_PORT - 1, MIN_PORT, DEFAULT_PORT, MAX_PORT, MAX_PORT + 1}
ValidatePassiveChoices ==
    {MIN_PASSIVE_PORT - 1, MIN_PASSIVE_PORT, DEFAULT_PASSIVE_START, MAX_PASSIVE_PORT + 1}

ValidateConfigs ==
    [port : ValidatePortChoices, directory : DirChoices, passive : BOOLEAN,
     passive_start : ValidatePassiveChoices, passive_end : ValidatePassiveChoices,
     encoding : EncodingChoices]

\* the dicts handed to ConfigManager.save_config: directories whose names end
\* in a space or hold a percent sign among them
ConfigDirChoices == {"/tmp", "/tmp ", "/t%", "/t%%"}
ConfigDataChoices ==
    [port : {MIN_PORT - 1, DEFAULT_PORT}, directory : ConfigDirChoices, passive : BOOLEAN,
     passive_start : {DEFAULT_PASSIVE_START}, passive_end : {DEFAULT_PASSIVE_START + 1},
     encoding_idx : {DEFAULT_ENCODING_IDX + 1}, threading_idx : {DEFAULT_THREADING_IDX - 1}]
\* the steps of the clock between calls of the config manager
ConfigTickChoices == {config_cache_ttl - 1, config_cache_ttl}

\* -------------------------------------------------------------- validators
\* each validate_* is TRUE when the function returns without ValidationError
\* a port check that excludes the two limits
validate_port_exclusive(port) == MIN_PORT < port /\ port < MAX_PORT

validate_port(port) == MIN_PORT <= port /\ port <= MAX_PORT

validate_port_range(start, end) ==
    /\ validate_port(start)
    /\ validate_port(end)
    /\ ~(start >= end)

validate_passive_port_range(start, end) ==
    /\ MIN_PASSIVE_PORT <= start /\ start <= MAX_PASSIVE_PORT
    /\ MIN_PASSIVE_PORT <= end /\ end <= MAX_PASSIVE_PORT
    /\ ~(start >= end)

\* the error validate_passive_port_range raises, <<>> when it returns: the
\* start bound, then the end bound, then the order, stopping at the first
validate_passive_port_range_raises(start, end) ==
    IF ~(MIN_PASSIVE_PORT <= start /\ start <= MAX_PASSIVE_PORT)
    THEN <<"bad-passive-start">>
    ELSE IF ~(MIN_PASSIVE_PORT <= end /\ end <= MAX_PASSIVE_PORT)
    THEN <<"bad-passive-end">>
    ELSE IF start >= end
    THEN <<"inverted-passive-range">>
    ELSE <<>>

validate_directory(path) == path \in ExistingDirs

validate_server_directory(directory) == validate_directory(directory)

\* FTPServerManager._validate_config
validate_config(cfg) ==
    /\ validate_port(cfg.port)
    /\ validate_server_directory(cfg.directory)
    /\ cfg.passive => validate_passive_port_range(cfg.passive_start, cfg.passive_end)

\* the error FTPServerManager._validate_config raises, <<>> when it returns:
\* validate_port, validate_server_directory, then validate_passive_port_range
\* when passive mode is on; the first ValidationError ends the function
validate_config_raises(cfg) ==
    IF ~validate_port(cfg.port)
    THEN <<"bad-port">>
    ELSE IF ~validate_server_directory(cfg.directory)
    THEN <<"bad-directory">>
    ELSE IF cfg.passive
    THEN validate_passive_port_range_raises(cfg.passive_start, cfg.passive_end)
    ELSE <<>>

\* the error ConfigManager._validate_config raises, <<>> when it returns: the
\* first ConfigError ends the function
config_manager_validate_raises(cfg) ==
    IF ~(MIN_PORT <= cfg.port /\ cfg.port <= MAX_PORT)
    THEN <<"bad-port">>
    ELSE IF ~validate_directory(cfg.directory)
    THEN <<"bad-directory">>
    ELSE IF cfg.passive
    THEN IF ~(MIN_PASSIVE_PORT <= cfg.passive_start /\ cfg.passive_start <= MAX_PASSIVE_PORT)
         THEN <<"bad-passive-start">>
         ELSE IF ~(MIN_PASSIVE_PORT <= cfg.passive_end /\ cfg.passive_end <= MAX_PASSIVE_PORT)
         THEN <<"bad-passive-end">>
         ELSE IF cfg.passive_start >= cfg.passive_end
         THEN <<"inverted-passive-range">>
         ELSE <<>>
    ELSE <<>>

\* ConfigPanel.validate_config: the list of errors, in the order they are appended
panel_errors(cfg) ==
    (IF ~(1 <= cfg.port /\ cfg.port <= 65535) THEN <<"bad-port">> ELSE <<>>)
    \o (IF ~validate_directory(cfg.directory) THEN <<"bad-directory">> ELSE <<>>)
    \o (IF cfg.passive /\ ~(1024 <= cfg.passive_start /\ cfg.passive_start <= 65535)
        THEN <<"bad-passive-start">> ELSE <<>>)
    \o (IF cfg.passive /\ ~(1024 <= cfg.passive_end /\ cfg.passive_end <= 65535)
        THEN <<"bad-passive-end">> ELSE <<>>)
    \o (IF cfg.passive /\ cfg.passive_start >= cfg.passive_end
        THEN <<"inverted-passive-range">> ELSE <<>>)

\* the configs of the runs in which clients connect: valid, passive mode off
HandlerConfigs == {cfg \in Configs : validate_config(cfg) /\ ~cfg.passive}

\* a window that starts without looking at the validation errors
window_validate_skipped(cfg) == TRUE

\* FTPWindow.validate_config
window_validate_config(cfg) == panel_errors(cfg) = <<>>

\* ------------------------------------------------------- ports and engines
EngineIds == 1..Len(engines)

Listening == {engines[e].port : e \in {i \in EngineIds : engines[i].listening}}

\* what socket.bind((host, port)) finds: TRUE when the bind succeeds
port_free(port) == port \notin occupied /\ port \notin Listening

\* an is_running that looks at the thread reference only
is_running_by_reference == ftp_server_thread # 0

\* FTPServerManager.is_running
is_running ==
    IF ftp_server_thread = 0 THEN FALSE ELSE engines[ftp_server_thread].alive

\* FTPServerManager.get_connection_count (server.ftp_server)
get_connection_count == count

\* self.active_connections of pyftp.server.ftp_server.FTPServerManager: set to
\* 0 by __init__, start_server and stop_server, assigned nowhere else
active_connections == 0

\* FTPServerManager.get_connection_count (pyftp.server.ftp_server)
pyftp_get_connection_count == active_connections

\* ---------------------------------------------------------------- PortCache
\* an entry that still counts as fresh when its age equals the TTL
cache_fresh_inclusive(c, port) ==
    port \in DOMAIN c /\ now - c[port].ts <= cache_ttl

\* the entry of the port exists and current_time - timestamp < cache_ttl
cache_fresh(c, port) ==
    port \in DOMAIN c /\ now - c[port].ts < cache_ttl

\* PortCache.is_port_available on cache c: the answer, the cache afterwards,
\* and the ports bind-probed by the call
cache_is_port_available(c, port) ==
    IF cache_fresh(c, port)
    THEN [avail |-> c[port].avail, cache |-> c, probed |-> {}]
    ELSE LET is_available == port_free(port)
         IN [avail |-> is_available,
             cache |-> [q \in (DOMAIN c) \cup {port} |->
                          IF q = port THEN [avail |-> is_available, ts |-> now] ELSE c[q]],
             probed |-> {port}]

\* a range check that looks at the first port of the range only
cache_is_port_range_first_only(c, start, end) ==
    IF start > end
    THEN [avail |-> TRUE, cache |-> c, probed |-> {}, checked |-> {}]
    ELSE LET r == cache_is_port_available(c, start)
         IN [avail |-> r.avail, cache |-> r.cache, probed |-> r.probed,
             checked |-> {start}]

\* PortCache.is_port_range_available: ports start..end in increasing order,
\* returning at the first unavailable one; checked are the ports looked at
RECURSIVE cache_is_port_range_available(_, _, _)
cache_is_port_range_available(c, start, end) ==
    IF start > end
    THEN [avail |-> TRUE, cache |-> c, probed |-> {}, checked |-> {}]
    ELSE LET r == cache_is_port_available(c, start)
         IN IF ~r.avail
            THEN [avail |-> FALSE, cache |-> r.cache, probed |-> r.probed, checked |-> {start}]
            ELSE LET rest == cache_is_port_range_available(r.cache, start + 1, end)
                 IN [avail |-> rest.avail, cache |-> rest.cache,
                     probed |-> r.probed \cup rest.probed,
                     checked |-> {start} \cup rest.checked]

\* FTPServerManager.is_port_available
is_port_available(c, port) ==
    IF ~validate_port(port)
    THEN [avail |-> FALSE, cache |-> c, probed |-> {}]
    ELSE cache_is_port_available(c, port)

\* FTPServerManager.is_port_range_available
is_port_range_available(c, start, end) ==
    IF ~validate_port_range(start, end)
    THEN [avail |-> FALSE, cache |-> c, probed |-> {}, checked |-> {}]
    ELSE cache_is_port_range_available(c, start, end)


\* ------------------------------------------------------------ error handler
\* how a function body ends: it returns ret, or it raises exc (ret is then
\* without meaning)
returns(ret) == [ret |-> ret, exc |-> "none"]
raises(exc) == [ret |-> FALSE, exc |-> exc]

\* a decorator that logs the exception and lets it go on to the caller
handle_errors_reraises(outcome, default_return) == outcome

\* core.error_handler.handle_errors(default_return): the wrapper returns what
\* the function returns; PyFTPError and every other Exception is logged and
\* default_return returned instead
handle_errors(outcome, default_return) ==
    IF outcome.exc = "none"
    THEN outcome
    ELSE returns(default_return)

\* ------------------------------------------------------------ call records
NoCall == [op |-> "none"]

\* what the manager showed right before a call
PreState ==
    [count |-> count, thread |-> ftp_server_thread, instance |-> server_instance,
     running |-> is_running]

\* the ports of range(passive_start, passive_end + 1) of a config that
\* enables passive mode and passed validation; no port otherwise
passive_range(cfg) ==
    IF cfg.passive /\ validate_config(cfg)
    THEN cfg.passive_start .. cfg.passive_end
    ELSE {}

\* a start call that has just returned: its result, the state before it,
\* whether its config was valid, whether its control port was a valid port
\* that no listener held, its passive range and whether that was free, the
\* ports whose availability it looked up (checked) and bind-probed (probed),
\* the engine it bound (0: none)
StartRec(o, out, cfg, chk, prb, b) ==
    [op |-> o, ok |-> out.ret, exc |-> out.exc, pre |-> PreState,
     valid |-> validate_config(cfg),
     free |-> (validate_port(cfg.port) /\ cfg.port \notin occupied
               /\ cfg.port \notin Listening),
     prange |-> passive_range(cfg),
     pfree |-> \A p \in passive_range(cfg) : p \notin occupied /\ p \notin Listening,
     checked |-> chk, probed |-> prb, bound |-> b]

StopRec(ok, forced) ==
    [op |-> "stop", ok |-> ok, pre |-> PreState, forced |-> forced]

\* a handler callback that has just returned
CallbackRec(name) == [op |-> name, pre |-> PreState]

\* no start and no stop call is in progress
NoConfig == [port |-> 0]
NoCalls == [start |-> "idle", stop |-> "idle", cfg |-> NoConfig]

\* a start or stop call made concurrently with another that has just returned
ConcRec(o, ok) == [op |-> o, ok |-> ok]

\* the validation functions applied to one config: the list
\* ConfigPanel.validate_config returns, what FTPServerManager._validate_config,
\* validate_passive_port_range and ConfigManager._validate_config raise
ValidateRec(cfg) ==
    [op |-> "validate", cfg |-> cfg,
     errors |-> panel_errors(cfg),
     valid |-> validate_config(cfg),
     raised |-> validate_config_raises(cfg),
     range_raised |-> validate_passive_port_range_raises(cfg.passive_start, cfg.passive_end),
     config_raised |-> config_manager_validate_raises(cfg)]

\* ------------------------------------------------- FTPServerManager (calls)
\* ConnectionCounter.reset as the manager calls it: the whole call under the lock
counter_reset ==
    /\ lock = 0
    /\ count' = reset_value(count)
    /\ dirty' = TRUE
    /\ UNCHANGED <<record, lock, pc, op, tmp, observed, nInc, nDec, nFloor, base>>

counter_unchanged == UNCHANGED counterVars

\* start_server when _validate_config raises: ValidationError -> ServerError,
\* and handle_errors returns False
start_invalid(o, cfg, chk, prb) ==
    /\ counter_unchanged
    /\ UNCHANGED managerVars
    /\ last' = StartRec(o, handle_errors(raises("ServerError"), FALSE), cfg, chk, prb, 0)

\* a start that reports success although the engine could not be bound
start_conflict_reports_success(o, cfg, chk, prb) ==
    /\ counter_reset
    /\ handler' = [handler EXCEPT !.directory = cfg.directory,
                                  !.encoding = cfg.encoding]
    /\ UNCHANGED <<ftp_server_thread, server_instance, engines>>
    /\ last' = StartRec(o, handle_errors(returns(TRUE), FALSE), cfg, chk, prb, 0)

\* start_server when server_class((host, port), handler) raises because the
\* port is bound: the counter is reset and the handler class configured
\* before it, then ServerError and handle_errors returns False
start_conflict(o, cfg, chk, prb) ==
    /\ counter_reset
    /\ handler' = [handler EXCEPT !.directory = cfg.directory,
                                  !.encoding = cfg.encoding]
    /\ UNCHANGED <<ftp_server_thread, server_instance, engines>>
    /\ last' = StartRec(o, handle_errors(raises("ServerError"), FALSE), cfg, chk, prb, 0)

\* start_server running to its end: counter reset, handler configured,
\* engine bound, passive ports set when enabled, serve thread started
start_success(o, cfg, chk, prb) ==
    /\ Len(engines) < MaxEngines
    /\ counter_reset
    /\ engines' = Append(engines,
           [port |-> cfg.port, listening |-> TRUE, started |-> TRUE,
            alive |-> TRUE, stop_event |-> FALSE,
            serving |-> FALSE, conns |-> 0])
    /\ server_instance' = Len(engines) + 1
    /\ ftp_server_thread' = Len(engines) + 1
    /\ handler' = [directory |-> cfg.directory, encoding |-> cfg.encoding,
                   passive_ports |-> IF cfg.passive
                                     THEN <<cfg.passive_start, cfg.passive_end>>
                                     ELSE handler.passive_ports]
    /\ last' = StartRec(o, handle_errors(returns(TRUE), FALSE), cfg, chk, prb, Len(engines) + 1)

\* the body of FTPServerManager.start_server(config), entered by caller o with
\* port cache c; chk and prb are the ports the caller looked up and probed
start_body(o, cfg, c, chk, prb) ==
    /\ cache' = c
    /\ stopped' = FALSE
    /\ UNCHANGED <<occupied, now, configVars, auxVars, asked, mpc>>
    /\ IF ~validate_config(cfg)
       THEN start_invalid(o, cfg, chk, prb)
       ELSE IF ~port_free(cfg.port)
       THEN start_conflict(o, cfg, chk, prb)
       ELSE start_success(o, cfg, chk, prb)

\* FTPServerManager.start_server(config), called directly
\* (PyFTPApplication.start_server does so)
start_server(cfg) == start_body("start", cfg, cache, {}, {})

\* start_server when self.ftp_server_thread.start() raises (RuntimeError:
\* can't start new thread): the counter is reset, the handler configured, the
\* engine bound and assigned to self.server_instance, the thread object
\* assigned to self.ftp_server_thread; the except branch logs and raises
\* ServerError, nothing is closed or cleared, handle_errors returns False
start_thread_fails(o, cfg, chk, prb) ==
    /\ Len(engines) < MaxEngines
    /\ counter_reset
    /\ engines' = Append(engines,
           [port |-> cfg.port, listening |-> TRUE, started |-> FALSE,
            alive |-> FALSE, stop_event |-> FALSE,
            serving |-> FALSE, conns |-> 0])
    /\ server_instance' = Len(engines) + 1
    /\ ftp_server_thread' = Len(engines) + 1
    /\ handler' = [directory |-> cfg.directory, encoding |-> cfg.encoding,
                   passive_ports |-> IF cfg.passive
                                     THEN <<cfg.passive_start, cfg.passive_end>>
                                     ELSE handler.passive_ports]
    /\ last' = StartRec(o, handle_errors(raises("ServerError"), FALSE), cfg, chk, prb,
                        Len(engines) + 1)

\* FTPServerManager.start_server(config) in a process that cannot start
\* another thread: validation and bind as always, then Thread.start() raises
start_server_thread_fails(cfg) ==
    /\ cache' = cache
    /\ stopped' = FALSE
    /\ UNCHANGED <<occupied, now, configVars, auxVars, asked, mpc>>
    /\ IF ~validate_config(cfg)
       THEN start_invalid("start", cfg, {}, {})
       ELSE IF ~port_free(cfg.port)
       THEN start_conflict("start", cfg, {}, {})
       ELSE start_thread_fails("start", cfg, {}, {})

\* a start call of the window that returns False before it reaches the manager
window_refused(cfg, c, chk, prb) ==
    /\ last' = StartRec("window_start", returns(FALSE), cfg, chk, prb, 0)
    /\ cache' = c
    /\ stopped' = FALSE
    /\ counter_unchanged
    /\ UNCHANGED <<managerVars, occupied, now, configVars, auxVars, asked, mpc>>

\* FTPWindow.start_server: validate, check the control port, check the
\* passive range, then FTPServerManager.start_server
window_start_server(cfg) ==
    LET r1 == is_port_available(cache, cfg.port)
        r2 == IF cfg.passive
              THEN is_port_range_available(r1.cache, cfg.passive_start, cfg.passive_end)
              ELSE [avail |-> TRUE, cache |-> r1.cache, probed |-> {}, checked |-> {}]
    IN  IF ~window_validate_config(cfg)
        THEN window_refused(cfg, cache, {}, {})
        ELSE IF ~r1.avail
        THEN window_refused(cfg, r1.cache, {cfg.port}, r1.probed)
        ELSE IF ~r2.avail
        THEN window_refused(cfg, r2.cache, {cfg.port} \cup r2.checked,
                            r1.probed \cup r2.probed)
        ELSE start_body("window_start", cfg, r2.cache,
                        {cfg.port} \cup r2.checked, r1.probed \cup r2.probed)

\* a stop that reports an error when the serve thread outlives the join
stop_running_forced_is_error(exited) ==
    /\ engines' = [e \in EngineIds |->
          IF e = ftp_server_thread
          THEN [engines[e] EXCEPT !.stop_event = TRUE, !.listening = FALSE,
                                  !.alive = ~exited, !.serving = @ /\ ~exited,
                                  !.conns = 0]
          ELSE engines[e]]
    /\ ftp_server_thread' = IF exited THEN 0 ELSE ftp_server_thread
    /\ server_instance' = IF exited THEN 0 ELSE server_instance
    /\ counter_reset
    /\ last' = StopRec(exited, ~exited)
    /\ stopped' = exited
    /\ UNCHANGED <<handler, envVars>>

\* the engines after ftp_server_thread.stop(), join(timeout=2.0) and, when the
\* thread is still alive, server_instance.close_all()
stop_engines(exited) ==
    [e \in EngineIds |->
          IF e = ftp_server_thread
          THEN [engines[e] EXCEPT !.stop_event = TRUE, !.listening = FALSE,
                                  !.alive = ~exited, !.serving = @ /\ ~exited,
                                  !.conns = 0]
          ELSE IF e = server_instance /\ ~exited
          THEN [engines[e] EXCEPT !.listening = FALSE, !.conns = 0]
          ELSE engines[e]]

\* stop_server when the server is running; exited: the serve thread ended
\* within join(timeout=2.0), otherwise the forced branch closes the engine again.
\* close_all closes every handler of the engine (each runs on_disconnect)
\* before the counter is reset
stop_running(exited) ==
    /\ engines' = stop_engines(exited)
    /\ ftp_server_thread' = 0
    /\ server_instance' = 0
    /\ counter_reset
    /\ last' = StopRec(TRUE, ~exited)
    /\ stopped' = TRUE
    /\ UNCHANGED <<handler, envVars>>

\* a stop that clears the manager and the counter whether or not it runs
stop_idle_clears ==
    /\ ftp_server_thread' = 0
    /\ server_instance' = 0
    /\ counter_reset
    /\ last' = StopRec(TRUE, FALSE)
    /\ UNCHANGED <<engines, handler, envVars, stopped>>

\* stop_server when the server is not running: return True
stop_idle ==
    /\ last' = StopRec(TRUE, FALSE)
    /\ counter_unchanged
    /\ UNCHANGED <<managerVars, envVars, stopped>>

\* FTPServerManager.stop_server
stop_server(exited) ==
    IF is_running
    THEN stop_running(exited)
    ELSE exited /\ stop_idle

\* ------------------------- FTPServerManager called from two threads at once
\* start_server, lines 186-206: the config is validated, the counter reset and
\* the handler class configured
start_enter(cfg) ==
    /\ mpc.start = "idle"
    /\ validate_config(cfg)
    /\ counter_reset
    /\ handler' = [handler EXCEPT !.directory = cfg.directory,
                                  !.encoding = cfg.encoding]
    /\ mpc' = [mpc EXCEPT !.start = "bind", !.cfg = cfg]
    /\ last' = NoCall
    /\ stopped' = FALSE
    /\ UNCHANGED <<ftp_server_thread, server_instance, engines, occupied, cache, now, configVars, auxVars, asked>>

\* line 212: self.server_instance = server_class((host, port), handler);
\* the constructor raises when the port is bound and the call returns False
start_bind ==
    /\ mpc.start = "bind"
    /\ IF ~port_free(mpc.cfg.port)
       THEN /\ mpc' = [mpc EXCEPT !.start = "idle", !.cfg = NoConfig]
            /\ last' = ConcRec("conc_start", FALSE)
            /\ UNCHANGED <<server_instance, engines>>
       ELSE /\ Len(engines) < MaxEngines
            /\ engines' = Append(engines,
                   [port |-> mpc.cfg.port, listening |-> TRUE, started |-> FALSE,
                    alive |-> FALSE, stop_event |-> FALSE,
                    serving |-> FALSE, conns |-> 0])
            /\ server_instance' = Len(engines) + 1
            /\ mpc' = [mpc EXCEPT !.start = "thread"]
            /\ last' = NoCall
    /\ counter_unchanged
    /\ UNCHANGED <<ftp_server_thread, handler, occupied, cache, now, configVars, auxVars, asked, stopped>>

\* lines 215-239: self.server_instance is read again to set its limits
\* (AttributeError when it is None by now: the call returns False) and to
\* build self.ftp_server_thread = FTPServerThread(self.server_instance)
start_thread_create ==
    /\ mpc.start = "thread"
    /\ IF server_instance = 0
       THEN /\ mpc' = [mpc EXCEPT !.start = "idle", !.cfg = NoConfig]
            /\ last' = ConcRec("conc_start", FALSE)
            /\ UNCHANGED <<ftp_server_thread, handler>>
       ELSE /\ ftp_server_thread' = server_instance
            /\ handler' = [handler EXCEPT !.passive_ports =
                              IF mpc.cfg.passive
                              THEN <<mpc.cfg.passive_start, mpc.cfg.passive_end>>
                              ELSE @]
            /\ mpc' = [mpc EXCEPT !.start = "run"]
            /\ last' = NoCall
    /\ counter_unchanged
    /\ UNCHANGED <<server_instance, engines, occupied, cache, now, configVars, auxVars, asked, stopped>>

\* lines 240-248: self.ftp_server_thread.start() (AttributeError when the
\* reference is None by now: the call returns False), then return True
start_thread_start ==
    /\ mpc.start = "run"
    /\ IF ftp_server_thread = 0
       THEN /\ last' = ConcRec("conc_start", FALSE)
            /\ UNCHANGED engines
       ELSE /\ engines' = [engines EXCEPT ![ftp_server_thread].started = TRUE,
                                          ![ftp_server_thread].alive = TRUE]
            /\ last' = ConcRec("conc_start", TRUE)
    /\ mpc' = [mpc EXCEPT !.start = "idle", !.cfg = NoConfig]
    /\ counter_unchanged
    /\ UNCHANGED <<ftp_server_thread, server_instance, handler,
                   occupied, cache, now, configVars, auxVars, asked, stopped>>

\* stop_server, line 287: return True unless the server is running
stop_enter ==
    /\ mpc.stop = "idle"
    /\ IF is_running
       THEN /\ mpc' = [mpc EXCEPT !.stop = "stop"]
            /\ last' = NoCall
       ELSE /\ mpc' = mpc
            /\ last' = ConcRec("conc_stop", TRUE)
    /\ counter_unchanged
    /\ UNCHANGED <<managerVars, occupied, cache, now, configVars, auxVars, asked, stopped>>

\* line 289: self.ftp_server_thread.stop() sets the stop event of the thread
\* the reference holds now and closes its engine (AttributeError when the
\* reference is None: the except branch returns False)
stop_thread_stop ==
    /\ mpc.stop = "stop"
    /\ IF ftp_server_thread = 0
       THEN /\ mpc' = [mpc EXCEPT !.stop = "idle"]
            /\ last' = ConcRec("conc_stop", FALSE)
            /\ UNCHANGED engines
       ELSE /\ engines' = [engines EXCEPT ![ftp_server_thread].stop_event = TRUE,
                                          ![ftp_server_thread].listening = FALSE,
                                          ![ftp_server_thread].conns = 0]
            /\ mpc' = [mpc EXCEPT !.stop = "join"]
            /\ last' = NoCall
    /\ counter_unchanged
    /\ UNCHANGED <<ftp_server_thread, server_instance, handler,
                   occupied, cache, now, configVars, auxVars, asked, stopped>>

\* lines 290-295: join(timeout=2.0) on the thread the reference holds now
\* (RuntimeError when that thread was not started yet, AttributeError when
\* the reference is None: the except branch returns False); when the thread
\* is still alive the engine self.server_instance holds now is closed again
stop_join(exited) ==
    /\ mpc.stop = "join"
    /\ IF ftp_server_thread = 0 \/ ~engines[ftp_server_thread].started
       THEN /\ exited
            /\ mpc' = [mpc EXCEPT !.stop = "idle"]
            /\ last' = ConcRec("conc_stop", FALSE)
            /\ UNCHANGED engines
       ELSE /\ exited => (engines[ftp_server_thread].stop_event
                          \/ ~engines[ftp_server_thread].alive)
            /\ ~exited => engines[ftp_server_thread].alive
            /\ engines' = [e \in EngineIds |->
                  IF e = ftp_server_thread
                  THEN [engines[e] EXCEPT !.alive = @ /\ ~exited,
                           !.listening = IF ~exited /\ e = server_instance
                                         THEN FALSE ELSE @,
                           !.conns = IF ~exited /\ e = server_instance THEN 0 ELSE @]
                  ELSE IF e = server_instance /\ ~exited
                  THEN [engines[e] EXCEPT !.listening = FALSE, !.conns = 0]
                  ELSE engines[e]]
            /\ mpc' = [mpc EXCEPT !.stop = "clear_thread"]
            /\ last' = NoCall
    /\ counter_unchanged
    /\ UNCHANGED <<ftp_server_thread, server_instance, handler,
                   occupied, cache, now, configVars, auxVars, asked, stopped>>

\* line 297: self.ftp_server_thread = None
stop_clear_thread ==
    /\ mpc.stop = "clear_thread"
    /\ ftp_server_thread' = 0
    /\ mpc' = [mpc EXCEPT !.stop = "clear_instance"]
    /\ last' = NoCall
    /\ counter_unchanged
    /\ UNCHANGED <<server_instance, engines, handler, occupied, cache, now, configVars, auxVars, asked, stopped>>

\* line 298: self.server_instance = None
stop_clear_instance ==
    /\ mpc.stop = "clear_instance"
    /\ server_instance' = 0
    /\ mpc' = [mpc EXCEPT !.stop = "reset"]
    /\ last' = NoCall
    /\ counter_unchanged
    /\ UNCHANGED <<ftp_server_thread, engines, handler, occupied, cache, now, configVars, auxVars, asked, stopped>>

\* lines 299-301: the counter is reset and the call returns True
stop_reset ==
    /\ mpc.stop = "reset"
    /\ counter_reset
    /\ mpc' = [mpc EXCEPT !.stop = "idle"]
    /\ last' = ConcRec("conc_stop", TRUE)
    /\ stopped' = TRUE
    /\ UNCHANGED <<managerVars, occupied, cache, now, configVars, auxVars, asked>>

\* ---------------------------------------------------------------- validation
\* ConfigPanel.validate_config, FTPServerManager._validate_config,
\* validate_passive_port_range and ConfigManager._validate_config called on cfg
validate(cfg) ==
    /\ last' = ValidateRec(cfg)
    /\ counter_unchanged
    /\ UNCHANGED <<managerVars, envVars, stopped>>

\* ------------------------------------------------------------ ConfigManager
\* text is a sequence of one-character strings
DigitChars == <<"0", "1", "2", "3", "4", "5", "6", "7", "8", "9">>

\* str(n) of an int n
RECURSIVE str_int(_)
str_int(n) ==
    IF n < 0 THEN <<"-">> \o str_int(-n)
    ELSE IF n < 10 THEN <<DigitChars[n + 1]>>
    ELSE str_int(n \div 10) \o <<DigitChars[(n % 10) + 1]>>

\* str.isdigit
isdigit(text) ==
    /\ text # <<>>
    /\ \A i \in DOMAIN text : \E d \in DOMAIN DigitChars : DigitChars[d] = text[i]

\* int(text) of a text of digits
RECURSIVE int_digits(_)
int_digits(text) ==
    IF text = <<>> THEN 0
    ELSE int_digits(SubSeq(text, 1, Len(text) - 1)) * 10
         + ((CHOOSE d \in DOMAIN DigitChars : DigitChars[d] = text[Len(text)]) - 1)

\* whether int(text) returns; ValueError otherwise
is_int_text(text) ==
    \/ isdigit(text)
    \/ Len(text) > 1 /\ text[1] = "-" /\ isdigit(Tail(text))

\* int(text), being is_int_text(text)
int_text(text) ==
    IF text[1] = "-" THEN 0 - int_digits(Tail(text)) ELSE int_digits(text)

\* ConfigManager._parse_int_value
parse_int_value(value, default) ==
    IF isdigit(value) \/ (Len(value) > 0 /\ value[1] = "-" /\ isdigit(Tail(value)))
    THEN int_text(value)
    ELSE default

\* str(value).lower() of a bool
str_bool(b) == IF b THEN <<"t", "r", "u", "e">> ELSE <<"f", "a", "l", "s", "e">>

\* ConfigParser.BOOLEAN_STATES
TrueTexts == {<<"1">>, <<"y", "e", "s">>, <<"t", "r", "u", "e">>, <<"o", "n">>}
FalseTexts == {<<"0">>, <<"n", "o">>, <<"f", "a", "l", "s", "e">>, <<"o", "f", "f">>}

\* the characters of the directory names of the model
dir_chars(d) ==
    CASE d = "/tmp" -> <<"/", "t", "m", "p">>
      [] d = "/tmp " -> <<"/", "t", "m", "p", " ">>
      [] d = "/t%" -> <<"/", "t", "%">>
      [] d = "/t%%" -> <<"/", "t", "%", "%">>
      [] d = "/nonexistent" -> <<"/", "n">>

\* the names the model has for a text: the directory name with these
\* characters, the text itself when it is none of them
DirNames == {"/tmp", "/tmp ", "/t%", "/t%%", "/nonexistent"}
chars_dir(text) ==
    IF \E d \in DirNames : dir_chars(d) = text
    THEN CHOOSE d \in DirNames : dir_chars(d) = text
    ELSE "?"

\* str.strip of the value of an option as the parser reads it
RECURSIVE strip(_)
strip(text) ==
    IF text = <<>> THEN text
    ELSE IF Head(text) = " " THEN strip(Tail(text))
    ELSE IF text[Len(text)] = " " THEN strip(SubSeq(text, 1, Len(text) - 1))
    ELSE text

\* BasicInterpolation.before_set: TRUE when the value is accepted, a "%" that
\* is not doubled is ValueError (no value of the model holds "%(")
RECURSIVE before_set(_)
before_set(text) ==
    IF text = <<>> THEN TRUE
    ELSE IF Head(text) # "%" THEN before_set(Tail(text))
    ELSE IF Len(text) >= 2 /\ text[2] = "%" THEN before_set(Tail(Tail(text)))
    ELSE FALSE

\* BasicInterpolation.before_get on a value before_set accepted: "%%" is "%"
RECURSIVE before_get(_)
before_get(text) ==
    IF text = <<>> THEN text
    ELSE IF Head(text) = "%" /\ Len(text) >= 2
    THEN <<"%">> \o before_get(Tail(Tail(text)))
    ELSE <<Head(text)>> \o before_get(Tail(text))

\* the options save_config sets in section server, each as text: the two
\* indexes and the ints through str, the bool through str(value).lower()
config_texts(config_data) ==
    [port |-> str_int(config_data.port),
     directory |-> dir_chars(config_data.directory),
     passive |-> str_bool(config_data.passive),
     passive_start |-> str_int(config_data.passive_start),
     passive_end |-> str_int(config_data.passive_end),
     encoding_idx |-> str_int(config_data.encoding_idx),
     threading_idx |-> str_int(config_data.threading_idx)]

ConfigOptions ==
    {"port", "directory", "passive", "passive_start", "passive_end",
     "encoding_idx", "threading_idx"}

\* config.get(section, option): the written value stripped, then interpolated
config_get(file, option) == before_get(strip(file[option]))

\* whether getint / getboolean of load_config all return
config_parses(file) ==
    /\ is_int_text(config_get(file, "port"))
    /\ is_int_text(config_get(file, "passive_start"))
    /\ is_int_text(config_get(file, "passive_end"))
    /\ config_get(file, "passive") \in TrueTexts \cup FalseTexts

\* the dict load_config builds from the file
config_parse(file) ==
    [port |-> int_text(config_get(file, "port")),
     directory |-> chars_dir(config_get(file, "directory")),
     passive |-> config_get(file, "passive") \in TrueTexts,
     passive_start |-> int_text(config_get(file, "passive_start")),
     passive_end |-> int_text(config_get(file, "passive_end")),
     encoding_idx |-> parse_int_value(config_get(file, "encoding_idx"), DEFAULT_ENCODING_IDX),
     threading_idx |-> parse_int_value(config_get(file, "threading_idx"), DEFAULT_THREADING_IDX)]

\* a save_config / load_config call that has just returned: what it returned
\* (ret), the exception that reached the caller (exc), the config it was given
ConfigRec(o, out, config_data) ==
    [op |-> o, ret |-> out.ret, exc |-> out.exc, cfg |-> config_data,
     valid |-> (config_data # None /\ config_manager_validate_raises(config_data) = <<>>)]

\* save_config running to its end: the options are set, the file is written,
\* the load cache dropped, True returned
save_config_writes(config_data) ==
    /\ config_file' = config_texts(config_data)
    /\ config_cache' = None
    /\ saved' = config_data
    /\ last' = ConfigRec("save_config", handle_errors(returns(TRUE), FALSE), config_data)
    /\ UNCHANGED cache_timestamp

\* ConfigManager.save_config(config_data): _validate_config raises ConfigError;
\* config.set raises ValueError, which the except branch turns into
\* ConfigError; handle_errors returns False for both
save_config(config_data) ==
    /\ IF config_manager_validate_raises(config_data) # <<>>
       THEN /\ last' = ConfigRec("save_config",
                           handle_errors(raises("ConfigError"), FALSE), config_data)
            /\ UNCHANGED configVars
       ELSE IF ~(\A o \in ConfigOptions : before_set(config_texts(config_data)[o]))
       THEN /\ last' = ConfigRec("save_config",
                           handle_errors(raises("ConfigError"), FALSE), config_data)
            /\ saved' = config_data
            /\ UNCHANGED <<config_file, config_cache, cache_timestamp>>
       ELSE save_config_writes(config_data)
    /\ counter_unchanged
    /\ UNCHANGED <<managerVars, occupied, cache, now, asked, mpc, stopped, auxVars>>

\* ConfigManager.load_config(): the cached dict while it is younger than the
\* TTL; None when there is no file; else the dict parsed from the file, which
\* becomes the cache (ConfigError when an option does not parse)
load_config ==
    /\ IF config_cache # None /\ now - cache_timestamp < config_cache_ttl
       THEN /\ last' = ConfigRec("load_config", returns(config_cache), None)
            /\ UNCHANGED <<config_cache, cache_timestamp>>
       ELSE IF config_file = NoFile
       THEN /\ last' = ConfigRec("load_config", returns(None), None)
            /\ config_cache' = None
            /\ cache_timestamp' = now
       ELSE IF ~config_parses(config_file)
       THEN /\ last' = ConfigRec("load_config", raises("ConfigError"), None)
            /\ config_cache' = None
            /\ cache_timestamp' = now
       ELSE /\ last' = ConfigRec("load_config", returns(config_parse(config_file)), None)
            /\ config_cache' = config_parse(config_file)
            /\ cache_timestamp' = now
    /\ counter_unchanged
    /\ UNCHANGED <<managerVars, occupied, cache, now, asked, mpc, config_file, saved, stopped, auxVars>>

\* ------------------------------------------------ serve thread and engine
\* a serve loop that goes on to the next iteration without looking at the
\* stop event
serve_forever_enter_unconditional(e) ==
    /\ e \in EngineIds
    /\ engines[e].alive
    /\ ~engines[e].serving
    /\ engines' = [engines EXCEPT ![e].serving = TRUE]
    /\ last' = NoCall
    /\ counter_unchanged
    /\ UNCHANGED <<ftp_server_thread, server_instance, handler, envVars, stopped>>

\* FTPServerThread.run, the loop test finds the stop event not set and the
\* thread calls self.server.serve_forever(timeout=0.1, blocking=False)
serve_forever_enter(e) ==
    /\ e \in EngineIds
    /\ engines[e].alive
    /\ ~engines[e].serving
    /\ ~engines[e].stop_event
    /\ engines' = [engines EXCEPT ![e].serving = TRUE]
    /\ last' = NoCall
    /\ counter_unchanged
    /\ UNCHANGED <<ftp_server_thread, server_instance, handler, envVars, stopped>>

\* the serve_forever call of the thread returns: back to the loop test
serve_forever_return(e) ==
    /\ e \in EngineIds
    /\ engines[e].alive
    /\ engines[e].serving
    /\ engines' = [engines EXCEPT ![e].serving = FALSE]
    /\ last' = NoCall
    /\ counter_unchanged
    /\ UNCHANGED <<ftp_server_thread, server_instance, handler, envVars, stopped>>

\* FTPServerThread.run leaves its loop: the loop test finds the stop event set
thread_exit(e) ==
    /\ e \in EngineIds
    /\ engines[e].alive
    /\ ~engines[e].serving
    /\ engines[e].stop_event
    /\ engines' = [engines EXCEPT ![e].alive = FALSE]
    /\ last' = NoCall
    /\ counter_unchanged
    /\ UNCHANGED <<ftp_server_thread, server_instance, handler, envVars, stopped>>

\* CustomFTPHandler.on_connect of a connection accepted by engine e:
\* connection_counter.increment()
on_connect(e) ==
    /\ e \in EngineIds
    /\ engines[e].alive
    /\ lock = 0
    /\ count < MaxCount
    /\ engines[e].conns < MaxCount
    /\ count' = increment_value(count)
    /\ dirty' = TRUE
    /\ engines' = [engines EXCEPT ![e].conns = @ + 1]
    /\ last' = CallbackRec("on_connect")
    /\ UNCHANGED <<record, lock, pc, op, tmp, observed, nInc, nDec, nFloor, base>>
    /\ UNCHANGED <<ftp_server_thread, server_instance, handler, envVars, stopped>>

\* CustomFTPHandler.on_disconnect of an open connection of engine e:
\* connection_counter.decrement()
on_disconnect(e) ==
    /\ e \in EngineIds
    /\ engines[e].alive
    /\ engines[e].conns > 0
    /\ lock = 0
    /\ count' = decrement_value(count)
    /\ dirty' = TRUE
    /\ engines' = [engines EXCEPT ![e].conns = @ - 1]
    /\ last' = CallbackRec("on_disconnect")
    /\ UNCHANGED <<record, lock, pc, op, tmp, observed, nInc, nDec, nFloor, base>>
    /\ UNCHANGED <<ftp_server_thread, server_instance, handler, envVars, stopped>>

\* on_login, on_file_sent, on_file_received, on_incomplete_file_sent,
\* on_incomplete_file_received, on_error of an open connection of engine e:
\* each writes a log line and nothing else
on_log_only(e) ==
    /\ e \in EngineIds
    /\ engines[e].alive
    /\ engines[e].conns > 0
    /\ last' = CallbackRec("on_log_only")
    /\ counter_unchanged
    /\ UNCHANGED <<managerVars, envVars, stopped>>

\* ---------------------------------------------------------------- FTPWindow
\* what ftp_server_thread.stop() did when the stop_server called by a close
\* raised: nothing raised, or close_all raised before or after it closed the
\* listening socket
StopFaults == {"none", "before_close", "after_close"}

\* a close event that has just been handled: whether it was accepted, and the
\* application before it
CloseRec(accepted) ==
    [op |-> "close", accepted |-> accepted,
     pre |-> [running |-> is_running, timer |-> status_update_timer,
              log_handler |-> log_handler]]

\* FTPWindow.closeEvent: the status timer is stopped and the log handler
\* removed from the root logger, closed and set to None; then for a running
\* server the user is asked (reply), Yes calls stop_server: the event is
\* accepted when that returns True, else ignored and the timer started again;
\* No ignores the event and starts the timer again; without a running server
\* the event is accepted
close_event(reply, exited, fault) ==
    /\ ~closed
    /\ log_handler' = FALSE
    /\ IF ~is_running
       THEN /\ reply = "No" /\ exited /\ fault = "none"
            /\ closed' = TRUE
            /\ status_update_timer' = "stopped"
            /\ last' = CloseRec(TRUE)
            /\ counter_unchanged
            /\ UNCHANGED <<managerVars, stopped>>
       ELSE IF reply = "No"
       THEN /\ exited /\ fault = "none"
            /\ closed' = FALSE
            /\ status_update_timer' = "active"
            /\ last' = CloseRec(FALSE)
            /\ counter_unchanged
            /\ UNCHANGED <<managerVars, stopped>>
       ELSE IF fault # "none"
       THEN /\ exited
            /\ engines' = [engines EXCEPT ![ftp_server_thread].stop_event = TRUE,
                                          ![ftp_server_thread].listening =
                                              @ /\ fault = "before_close"]
            /\ closed' = FALSE
            /\ status_update_timer' = "active"
            /\ last' = CloseRec(FALSE)
            /\ counter_unchanged
            /\ UNCHANGED <<ftp_server_thread, server_instance, handler, stopped>>
       ELSE /\ engines' = stop_engines(exited)
            /\ ftp_server_thread' = 0
            /\ server_instance' = 0
            /\ counter_reset
            /\ stopped' = TRUE
            /\ closed' = TRUE
            /\ status_update_timer' = "stopped"
            /\ last' = CloseRec(TRUE)
            /\ UNCHANGED handler
    /\ UNCHANGED <<occupied, cache, now, asked, mpc, configVars, cacheAux, panelVars, qtVars>>

\* a log record is handed to the root logger while the window is open:
\* handled tells whether the window's log handler receives it
log_record ==
    /\ ~closed
    /\ last' = [op |-> "log", handled |-> log_handler]
    /\ counter_unchanged
    /\ UNCHANGED <<managerVars, envVars, stopped>>

\* ------------------------------------------------------------ QtLogHandler
\* deque(maxlen=max_buffer_size).append(x): a full deque discards its oldest
\* item
deque_append(d, x) ==
    IF Len(d) >= max_buffer_size
    THEN Append(SubSeq(d, Len(d) - max_buffer_size + 2, Len(d)), x)
    ELSE Append(d, x)

\* emit(record) by thread t up to the end of `with self.buffer_lock:`: the
\* formatted record is appended to the buffer
emit_append(t) ==
    /\ emit_pc[t] = "idle"
    /\ emit_calls < MaxRecords
    /\ handler_buffer' = deque_append(handler_buffer, emit_calls + 1)
    /\ emit_calls' = emit_calls + 1
    /\ emit_pc' = [emit_pc EXCEPT ![t] = "appended"]
    /\ last' = [op |-> "emit", dropped |-> Len(handler_buffer) >= max_buffer_size]
    /\ UNCHANGED <<batch_timer, log_signal>>
    /\ UNCHANGED <<coreVars, cacheAux, panelVars, windowVars>>

\* the rest of emit(record) by thread t: the timer is started unless active
emit_start_timer(t) ==
    /\ emit_pc[t] = "appended"
    /\ batch_timer' = TRUE
    /\ emit_pc' = [emit_pc EXCEPT ![t] = "idle"]
    /\ last' = NoCall
    /\ UNCHANGED <<handler_buffer, log_signal, emit_calls>>
    /\ UNCHANGED <<coreVars, cacheAux, panelVars, windowVars>>

\* the single-shot batch_timer fires: _emit_buffer emits every buffered record
\* in handler_buffer order under the lock and clears the buffer
emit_buffer ==
    /\ batch_timer
    /\ batch_timer' = FALSE
    /\ log_signal' = log_signal \o handler_buffer
    /\ handler_buffer' = <<>>
    /\ last' = [op |-> "emit_buffer", dropped |-> FALSE]
    /\ UNCHANGED <<emit_pc, emit_calls>>
    /\ UNCHANGED <<coreVars, cacheAux, panelVars, windowVars>>

\* ------------------------------------------------------------ GuiLogPanel
\* record.levelname of a log record
LogLevels == {"DEBUG", "INFO", "WARNING", "ERROR", "CRITICAL"}

\* A message is the text '%(asctime)s %(levelname)s: %(message)s' and its
\* level: id orders the messages by arrival, level is the levelname written
\* after the time, mentions are the levelnames L for which " L:" occurs in
\* the text after that.
LogLine(id, level, mentions) == [id |-> id, level |-> level, mentions |-> mentions]

\* " LEVEL:" in line
contains_level(line, level) == line.level = level \/ level \in line.mentions

\* _limit_log_lines: the oldest lines beyond max_lines are removed
limit_log_lines(view) ==
    IF Len(view) > max_lines
    THEN SubSeq(view, Len(view) - max_lines + 1, Len(view))
    ELSE view

\* a flush that leaves the buffer as it was
process_log_buffer_keeps(view, buffer) ==
    [log_view |-> limit_log_lines(view \o buffer), log_buffer |-> buffer]

\* _process_log_buffer: every buffered message is inserted at the end of the
\* view in buffer order, the buffer is cleared, the view is trimmed
process_log_buffer(view, buffer) ==
    [log_view |-> limit_log_lines(view \o buffer), log_buffer |-> <<>>]

\* GuiLogPanel.append_log(message, level)
append_log(line) ==
    /\ LET buffer == Append(log_buffer, line)
       IN  IF Len(buffer) >= batch_size \/ line.level \in {"ERROR", "CRITICAL"}
           THEN /\ log_view' = process_log_buffer(log_view, buffer).log_view
                /\ log_buffer' = process_log_buffer(log_view, buffer).log_buffer
                /\ UNCHANGED buffer_timer
           ELSE /\ log_buffer' = buffer
                /\ buffer_timer' = "active"
                /\ UNCHANGED log_view
    /\ appended' = appended + 1
    /\ last' = [op |-> "append_log", level |-> line.level, pending |-> Len(log_buffer)]
    /\ UNCHANGED <<coreVars, cacheAux, windowVars, qtVars, cleared_upto>>

\* the single-shot _buffer_timer fires: _process_log_buffer
buffer_timer_timeout ==
    /\ buffer_timer = "active"
    /\ buffer_timer' = "stopped"
    /\ log_view' = process_log_buffer(log_view, log_buffer).log_view
    /\ log_buffer' = process_log_buffer(log_view, log_buffer).log_buffer
    /\ last' = [op |-> "timeout", pending |-> Len(log_buffer)]
    /\ UNCHANGED <<coreVars, cacheAux, windowVars, qtVars, appended, cleared_upto>>

\* GuiLogPanel.clear_log
clear_log ==
    /\ buffer_timer' = IF buffer_timer = "active" THEN "stopped" ELSE buffer_timer
    /\ log_view' = <<>>
    /\ log_buffer' = <<>>
    /\ cleared_upto' = appended
    /\ last' = [op |-> "clear_log", pending |-> Len(log_buffer)]
    /\ UNCHANGED <<coreVars, cacheAux, windowVars, qtVars, appended>>

\* level_map of filter_logs without its entry 0: None
level_map == <<"INFO", "WARNING", "ERROR">>

\* should_show of GuiLogPanel.filter_logs
should_show(line, level_index) ==
    \/ level_index = 0
    \/ level_index = 1 /\ contains_level(line, "INFO")
    \/ level_index = 2 /\ contains_level(line, "WARNING")
    \/ level_index = 3 /\ (contains_level(line, "ERROR") \/ contains_level(line, "CRITICAL"))

\* the test of LogPanel.filter_logs: filter_level is None or
\* f" {filter_level}:" in line
pyftp_should_show(line, level_index) ==
    level_index = 0 \/ contains_level(line, level_map[level_index])

FilterRec(panel, level_index) ==
    [op |-> "filter_logs", panel |-> panel, level_index |-> level_index, before |-> log_view]

\* GuiLogPanel.filter_logs with the combo box at level_index: the view is
\* cleared and the lines that pass are inserted again in their order
filter_logs(level_index) ==
    /\ log_view' = SelectSeq(log_view, LAMBDA line : should_show(line, level_index))
    /\ last' = FilterRec("GuiLogPanel", level_index)
    /\ UNCHANGED <<coreVars, cacheAux, windowVars, qtVars, log_buffer, buffer_timer, appended, cleared_upto>>

\* LogPanel.filter_logs with the combo box at level_index
pyftp_filter_logs(level_index) ==
    /\ log_view' = SelectSeq(log_view, LAMBDA line : pyftp_should_show(line, level_index))
    /\ last' = FilterRec("LogPanel", level_index)
    /\ UNCHANGED <<coreVars, cacheAux, windowVars, qtVars, log_buffer, buffer_timer, appended, cleared_upto>>

\* ------------------------------------------------------------- environment
\* another process binds / releases a port
external_bind(p) ==
    /\ p \in ForeignPorts
    /\ port_free(p)
    /\ occupied' = occupied \cup {p}
    /\ last' = NoCall
    /\ counter_unchanged
    /\ UNCHANGED <<managerVars, cache, now, configVars, auxVars, asked, mpc, stopped>>

external_release(p) ==
    /\ p \in occupied
    /\ occupied' = occupied \ {p}
    /\ last' = NoCall
    /\ counter_unchanged
    /\ UNCHANGED <<managerVars, cache, now, configVars, auxVars, asked, mpc, stopped>>

\* ------------------------------------------------- PortCache (direct calls)
\* the ports and ranges the cache is asked about
CachePorts == {DEFAULT_PORT, DEFAULT_PORT + 1}
\* the steps of the clock between calls, in seconds
TickChoices == {cache_ttl - 1, cache_ttl}

NoEntry == [avail |-> FALSE, ts |-> -1]

entry_of(c, port) == IF port \in DOMAIN c THEN c[port] ELSE NoEntry

\* a caller outside is_port_available; inside, port and current_time are the
\* locals of the call, is_available the result of its bind, cleared whether
\* clear_cache has returned since that bind
NoProbe == [pc |-> "idle", port |-> 0, current_time |-> 0, is_available |-> FALSE,
            cleared |-> FALSE]

\* is_port_available(port) by caller t up to the end of its first
\* `with self._lock:` block: current_time is read, a fresh entry is returned,
\* an expired one deleted
is_port_available_lookup(t, port) ==
    /\ cpc[t].pc = "idle"
    /\ IF cache_fresh(cache, port)
       THEN UNCHANGED <<cache, cpc>>
       ELSE /\ cache' = [q \in (DOMAIN cache) \ {port} |-> cache[q]]
            /\ cpc' = [cpc EXCEPT ![t] = [pc |-> "miss", port |-> port,
                                          current_time |-> now,
                                          is_available |-> FALSE, cleared |-> FALSE]]
    /\ last' = [op |-> "cache_lookup", port |-> port, hit |-> cache_fresh(cache, port)]

\* the bind probe of caller t, outside the lock
is_port_available_bind(t) ==
    /\ cpc[t].pc = "miss"
    /\ cpc' = [cpc EXCEPT ![t].pc = "probed", ![t].is_available = port_free(cpc[t].port)]
    /\ last' = NoCall
    /\ UNCHANGED cache

\* the second `with self._lock:` block of caller t:
\* self._cache[cache_key] = (is_available, current_time), then the return
is_port_available_store(t) ==
    /\ cpc[t].pc = "probed"
    /\ cache' = [q \in (DOMAIN cache) \cup {cpc[t].port} |->
                   IF q = cpc[t].port
                   THEN [avail |-> cpc[t].is_available, ts |-> cpc[t].current_time]
                   ELSE cache[q]]
    /\ last' = [op |-> "cache_store", port |-> cpc[t].port, cleared |-> cpc[t].cleared]
    /\ cpc' = [cpc EXCEPT ![t] = NoProbe]

\* a step of a concurrent is_port_available call of caller t
cache_call_step(t) ==
    /\ \/ \E port \in CachePorts : is_port_available_lookup(t, port)
       \/ is_port_available_bind(t)
       \/ is_port_available_store(t)
    /\ counter_unchanged
    /\ UNCHANGED <<managerVars, occupied, now, configVars, panelVars, windowVars, qtVars,
                   uncleaned, asked, mpc, stopped>>

\* PortCache.is_port_available(port) called on the global cache
check_port(port) ==
    LET r == cache_is_port_available(cache, port)
    IN  /\ cache' = r.cache
        /\ last' = [op |-> "check_port", port |-> port, avail |-> r.avail,
                    probed |-> r.probed, entry |-> entry_of(cache, port),
                    prev |-> asked, free |-> port_free(port),
                    uncleaned_avail |-> cache_is_port_available(uncleaned, port).avail,
                    kept |-> entry_of(uncleaned, port)]
        /\ uncleaned' = cache_is_port_available(uncleaned, port).cache
        /\ asked' = [op |-> "check_port", port |-> port, at |-> now, avail |-> r.avail]
        /\ counter_unchanged
        /\ UNCHANGED <<managerVars, occupied, now, configVars, panelVars, windowVars, qtVars, cpc, mpc, stopped>>

\* PortCache.is_port_range_available(start, end) called on the global cache;
\* single: what is_port_available answers for each port of the range when
\* the call begins; its latest is_port_available call is the one for the
\* highest port it looked at
check_range(start, end) ==
    LET r == cache_is_port_range_available(cache, start, end)
    IN  /\ cache' = r.cache
        /\ last' = [op |-> "check_range", start |-> start, end |-> end,
                    avail |-> r.avail, checked |-> r.checked, probed |-> r.probed,
                    single |-> [p \in start..end |->
                                  cache_is_port_available(cache, p).avail],
                    had |-> DOMAIN cache,
                    uncleaned_avail |->
                        cache_is_port_range_available(uncleaned, start, end).avail]
        /\ uncleaned' = cache_is_port_range_available(uncleaned, start, end).cache
        /\ asked' = IF r.checked = {} THEN asked
                    ELSE [op |-> "check_port",
                          port |-> CHOOSE p \in r.checked : \A q \in r.checked : q <= p,
                          at |-> now, avail |-> r.avail]
        /\ counter_unchanged
        /\ UNCHANGED <<managerVars, occupied, now, configVars, panelVars, windowVars, qtVars, cpc, mpc, stopped>>

\* PortCache.clear_cache; a caller that has probed and not yet stored has its
\* cleared flag set
clear_cache ==
    /\ cache' = <<>>
    /\ uncleaned' = <<>>
    /\ cpc' = [t \in Callers |->
                 IF cpc[t].pc = "probed" THEN [cpc[t] EXCEPT !.cleared = TRUE] ELSE cpc[t]]
    /\ asked' = NoCall
    /\ last' = NoCall
    /\ counter_unchanged
    /\ UNCHANGED <<managerVars, occupied, now, configVars, panelVars, windowVars, qtVars, mpc, stopped>>

\* a housekeeping pass that takes every entry for expired
expired_keys_all(c) == DOMAIN c

\* the keys cleanup_expired collects: current_time - timestamp >= cache_ttl
expired_keys(c) == {k \in DOMAIN c : now - c[k].ts >= cache_ttl}

\* PortCache.cleanup_expired: deletes the collected keys
cleanup_expired ==
    /\ cache' = [q \in (DOMAIN cache) \ expired_keys(cache) |-> cache[q]]
    /\ asked' = IF asked # NoCall /\ asked.port \in expired_keys(cache)
                THEN NoCall ELSE asked
    /\ last' = [op |-> "cleanup_expired", before |-> cache]
    /\ counter_unchanged
    /\ UNCHANGED <<managerVars, occupied, now, configVars, auxVars, mpc, stopped>>

\* time passes
tick(d) ==
    /\ now + d <= MaxTicks * cache_ttl
    /\ now' = now + d
    /\ last' = NoCall
    /\ counter_unchanged
    /\ UNCHANGED <<managerVars, occupied, cache, asked, mpc, stopped, configVars, auxVars>>

\* --------------------------------------------------------- specifications
Init ==
    /\ CounterInit
    /\ ftp_server_thread = 0
    /\ server_instance = 0
    /\ engines = <<>>
    /\ handler = [directory |-> "", encoding |-> "", passive_ports |-> <<>>]
    /\ occupied \in SUBSET ForeignPorts
    /\ cache = <<>>
    /\ now = 0
    /\ config_file = NoFile
    /\ config_cache = None
    /\ cache_timestamp = 0
    /\ saved = None
    /\ uncleaned = <<>>
    /\ cpc = [t \in Callers |-> NoProbe]
    /\ log_view = <<>>
    /\ log_buffer = <<>>
    /\ buffer_timer = "unset"
    /\ appended = 0
    /\ cleared_upto = 0
    /\ status_update_timer = "active"
    /\ log_handler = TRUE
    /\ closed = FALSE
    /\ handler_buffer = <<>>
    /\ batch_timer = FALSE
    /\ log_signal = <<>>
    /\ emit_pc = [t \in Callers |-> "idle"]
    /\ emit_calls = 0
    /\ asked = NoCall
    /\ mpc = NoCalls
    /\ last = NoCall
    /\ stopped = FALSE

Next ==
    \/ \E cfg \in Configs : start_server(cfg)
    \/ \E exited \in BOOLEAN : stop_server(exited)
    \/ \E e \in 1..MaxEngines : thread_exit(e)
    \/ \E p \in ForeignPorts : external_bind(p)
    \/ \E p \in ForeignPorts : external_release(p)

Spec == Init /\ [][Next]_vars

\* the manager started with valid configs while clients connect and
\* disconnect: the engine delivers the handler callbacks
HandlerNext ==
    \/ \E cfg \in HandlerConfigs : start_server(cfg)
    \/ \E exited \in BOOLEAN : stop_server(exited)
    \/ \E e \in 1..MaxEngines : thread_exit(e)
    \/ \E e \in 1..MaxEngines : on_connect(e)
    \/ \E e \in 1..MaxEngines : on_disconnect(e)
    \/ \E e \in 1..MaxEngines : on_log_only(e)

\* no other process holds a port in these runs
HandlerInit == Init /\ occupied = {}

SpecHandler == HandlerInit /\ [][HandlerNext]_vars

\* the same runs where some step is taken as long as one can be: the manager
\* and the handler callbacks are the only callers of the counter that keeps
\* the dirty flag, and no timer or other thread calls its _save_count
SpecDirty == HandlerInit /\ [][HandlerNext]_vars /\ WF_vars(HandlerNext)

\* the manager in a process where starting the serve thread can fail
FaultNext ==
    \/ \E cfg \in HandlerConfigs : start_server(cfg)
    \/ \E cfg \in HandlerConfigs : start_server_thread_fails(cfg)
    \/ \E exited \in BOOLEAN : stop_server(exited)
    \/ \E e \in 1..MaxEngines : thread_exit(e)
    \/ \E p \in ForeignPorts : external_bind(p)
    \/ \E p \in ForeignPorts : external_release(p)

SpecFault == Init /\ [][FaultNext]_vars

\* the validation functions, each a pure function of the config
ValidateNext == \E cfg \in ValidateConfigs : validate(cfg)

SpecValidate == Init /\ [][ValidateNext]_vars

\* the config manager: saves and loads while the clock advances
ConfigNext ==
    \/ \E config_data \in ConfigDataChoices : save_config(config_data)
    \/ load_config
    \/ \E d \in ConfigTickChoices : now + d <= MaxTicks * config_cache_ttl /\ tick(d)

SpecConfig == HandlerInit /\ [][ConfigNext]_vars

\* the calls that take a config from the caller, given valid and invalid ones
ErrorNext ==
    \/ \E cfg \in Configs : start_server(cfg)
    \/ \E config_data \in ConfigDataChoices : save_config(config_data)

SpecErrors == HandlerInit /\ [][ErrorNext]_vars

\* the serve thread iteration by iteration, while the manager is started and
\* stopped and clients connect to the engine the manager refers to
ServeNext ==
    \/ \E cfg \in HandlerConfigs : start_server(cfg)
    \/ \E exited \in BOOLEAN : stop_server(exited)
    \/ \E e \in 1..MaxEngines : serve_forever_enter(e)
    \/ \E e \in 1..MaxEngines : serve_forever_return(e)
    \/ \E e \in 1..MaxEngines : thread_exit(e)
    \/ \E e \in 1..MaxEngines : e = server_instance /\ on_connect(e)

\* a thread that can take a step takes it, and every serve_forever call returns
SpecServe ==
    /\ HandlerInit
    /\ [][ServeNext]_vars
    /\ \A e \in 1..MaxEngines :
          WF_vars(serve_forever_return(e)) /\ WF_vars(thread_exit(e))

\* the window's checked start, with the port cache, while no client connects
WindowNext ==
    \/ \E cfg \in Configs : window_start_server(cfg)
    \/ \E exited \in BOOLEAN : stop_server(exited)
    \/ \E e \in 1..MaxEngines : thread_exit(e)
    \/ \E p \in ForeignPorts : external_bind(p)
    \/ \E p \in ForeignPorts : external_release(p)

SpecWindow == Init /\ [][WindowNext]_vars

\* one thread calls start_server while another calls stop_server, each call
\* advancing line by line
ConcurrentNext ==
    \/ \E cfg \in HandlerConfigs : start_enter(cfg)
    \/ start_bind
    \/ start_thread_create
    \/ start_thread_start
    \/ stop_enter
    \/ stop_thread_stop
    \/ \E exited \in BOOLEAN : stop_join(exited)
    \/ stop_clear_thread
    \/ stop_clear_instance
    \/ stop_reset
    \/ \E e \in 1..MaxEngines : thread_exit(e)

SpecConcurrent == HandlerInit /\ [][ConcurrentNext]_vars

\* starts with configs that differ in directory and encoding, also while a
\* server is running
SharedNext ==
    \/ \E cfg \in SharedConfigs : start_server(cfg)
    \/ \E exited \in BOOLEAN : stop_server(exited)
    \/ \E e \in 1..MaxEngines : thread_exit(e)

SpecShared == HandlerInit /\ [][SharedNext]_vars

\* the window and its panels: no other process holds a port and there is no
\* connection_count.json in these runs
PanelInit == HandlerInit /\ record = NoRecord

\* the window is asked to close, with or without a running server, while
\* the server is started and stopped and records are logged
CloseNext ==
    \/ \E cfg \in HandlerConfigs : ~closed /\ start_server(cfg)
    \/ \E exited \in BOOLEAN : ~closed /\ stop_server(exited)
    \/ \E reply \in {"Yes", "No"}, exited \in BOOLEAN, fault \in StopFaults :
          close_event(reply, exited, fault)
    \/ \E e \in 1..MaxEngines : thread_exit(e)
    \/ log_record

SpecClose == PanelInit /\ [][CloseNext]_vars

\* server threads log records while the timer of the handler fires; a thread
\* inside emit goes on, and the Qt event loop delivers the timeout
LogNext ==
    \/ \E t \in Callers : emit_append(t)
    \/ \E t \in Callers : emit_start_timer(t)
    \/ emit_buffer

SpecLog ==
    /\ PanelInit /\ [][LogNext]_vars
    /\ WF_vars(emit_buffer)
    /\ \A t \in Callers : WF_vars(emit_start_timer(t))

\* the levelnames a message text mentions after its own
MentionChoices == {{}, {"ERROR"}}

\* messages of every level reach the view and the level filter of either
\* panel is applied to what is displayed
FilterNext ==
    \/ \E level \in LogLevels, mentions \in MentionChoices :
          /\ appended < MaxLines
          /\ append_log(LogLine(appended + 1, level, mentions))
    \/ buffer_timer_timeout
    \/ \E level_index \in 0..3 : filter_logs(level_index)
    \/ \E level_index \in 0..3 : pyftp_filter_logs(level_index)

SpecFilter == PanelInit /\ [][FilterNext]_vars

\* the level of the id-th message given to the panel: one message of each
\* level, then INFO messages, enough of them to fill a batch
StreamLevel(id) ==
    CASE id = 1 -> "INFO"
      [] id = 2 -> "WARNING"
      [] id = 3 -> "ERROR"
      [] id = 4 -> "DEBUG"
      [] id = 5 -> "CRITICAL"
      [] OTHER -> "INFO"

\* the panel receives the messages while its timer fires and the user clears
\* the log at any moment
PanelNext ==
    \/ /\ appended < MaxLogs
       /\ append_log(LogLine(appended + 1, StreamLevel(appended + 1), {}))
    \/ buffer_timer_timeout
    \/ clear_log

\* the Qt event loop delivers the timeout of an active timer
SpecPanel == PanelInit /\ [][PanelNext]_vars /\ WF_vars(buffer_timer_timeout)

\* the port cache called directly while time passes and other processes
\* bind and release ports
CacheNext ==
    \/ \E p \in CachePorts : check_port(p)
    \/ \E a, b \in CachePorts : check_range(a, b)
    \/ clear_cache
    \/ cleanup_expired
    \/ \E d \in TickChoices : tick(d)
    \/ \E p \in CachePorts : external_bind(p)
    \/ \E p \in CachePorts : external_release(p)

\* only the ports the cache is asked about are bound by others in these runs
CacheInit == Init /\ occupied \subseteq CachePorts

\* is_port_available called by concurrent callers, step by step, while the
\* cache is cleared, time passes and other processes bind and release ports
CacheCallNext ==
    \/ \E t \in Callers : cache_call_step(t)
    \/ clear_cache
    \/ \E d \in TickChoices : tick(d)
    \/ \E p \in CachePorts : external_bind(p)
    \/ \E p \in CachePorts : external_release(p)

\* the counter file plays no part in these runs: it does not exist
CacheCallInit == CacheInit /\ record = NoRecord

SpecCacheCalls == CacheCallInit /\ [][CacheCallNext]_vars

SpecCache == CacheInit /\ [][CacheNext]_vars

\* the counter alone, called by concurrent callers
CounterStep(t) ==
    /\ \/ (\E o \in CounterOps : acquire(t, o)) /\ last' = NoCall
       \/ compute(t) /\ last' = NoCall
       \/ store(t) /\ last' = NoCall
       \/ save_count(t)
       \/ save_count_fails(t)
       \/ get_count(t) /\ last' = NoCall
    /\ UNCHANGED <<managerVars, envVars, stopped>>

CounterNext == \E t \in Callers : CounterStep(t)

SpecCounter == Init /\ [][CounterNext]_vars

TypeOK ==
    /\ count \in Int
    /\ lock \in 0..NumCallers
    /\ ftp_server_thread \in 0..MaxEngines
    /\ server_instance \in 0..MaxEngines
    /\ now \in 0..(MaxTicks * cache_ttl)


\* ------------------------------------------------------------------ claims
StartOps == {"start", "window_start"}

\* C1 (as claimed): a start_server call on a running manager returns success
\* and leaves the connection count, the engine instance and the serve thread
\* as they were before the call.
C1_StartWhileRunningIsNoOp ==
    (last.op = "start" /\ last.pre.running) =>
        /\ last.ok
        /\ count = last.pre.count
        /\ server_instance = last.pre.instance
        /\ ftp_server_thread = last.pre.thread

\* C2 (as claimed): once N increments and M decrements (N >= M) issued by
\* concurrent callers on a counter that started at 0 have all returned,
\* the count is N - M.
C2_FinalCountIsNMinusM ==
    (AllIdle /\ base = 0 /\ nInc >= nDec) => count = nInc - nDec

\* C2 (amended): once they have all returned, the count is N - M plus the
\* number of decrements that ran while the count was 0; it is N - M when no
\* decrement ran at 0.
C2_FinalCountCountsFloor ==
    (AllIdle /\ base = 0 /\ nInc >= nDec) =>
        /\ count = nInc - nDec + nFloor
        /\ nFloor = 0 => count = nInc - nDec

C2_Witness ==
    /\ AllIdle /\ base = 0
    /\ nInc >= nDec /\ nDec >= 1 /\ nFloor >= 1
    /\ count = nInc

\* C3: in every reachable state of any interleaving of increment, decrement
\* and reset calls the count is not negative, and get_count() never returns
\* a value below 0.
C3_CountNeverNegative == count >= 0 /\ observed >= 0

C3_Witness ==
    /\ nFloor >= 1 /\ nInc >= 1
    /\ AllIdle /\ observed = count

\* C4: stop_server on a manager that is not running returns True and leaves
\* the thread reference, the engine instance and the connection count as
\* they were.
C4_StopWhenStoppedIsNoOp ==
    (last.op = "stop" /\ ~last.pre.running) =>
        /\ last.ok
        /\ ftp_server_thread = last.pre.thread
        /\ server_instance = last.pre.instance
        /\ count = last.pre.count

C4_Witness ==
    /\ last.op = "stop" /\ ~last.pre.running
    /\ last.pre.count > 0
    /\ Len(engines) > 0

\* C5: a start attempt of the window with a config that violates a
\* validation rule fails first: no port is looked up or probed, no engine is
\* bound, the thread and engine references stay, and a manager that was not
\* running is not running.
C5_InvalidConfigFailsFirst ==
    (last.op = "window_start" /\ ~last.valid) =>
        /\ ~last.ok
        /\ last.probed = {} /\ last.checked = {}
        /\ last.bound = 0
        /\ ftp_server_thread = last.pre.thread
        /\ server_instance = last.pre.instance
        /\ is_running = last.pre.running

C5_Witness ==
    /\ last.op = "window_start" /\ ~last.valid
    /\ ~last.pre.running
    /\ last.free

\* C6: when the control port of a valid config is bound by another listener
\* and start is called on a manager that is not running, start returns
\* False and is_running() is false afterwards.
C6_PortConflictFails ==
    (last.op = "start" /\ last.valid /\ ~last.free /\ ~last.pre.running) =>
        /\ ~last.ok
        /\ ~is_running

C6_Witness ==
    /\ last.op = "start" /\ last.valid /\ ~last.free /\ ~last.pre.running
    /\ DEFAULT_PORT \in occupied

\* C7 (as claimed): a start that fails on a validation error or on a port
\* conflict leaves the connection count and the manager's thread and engine
\* references as they were before the call.
C7_FailedStartMutatesNothing ==
    (last.op = "start" /\ ~last.ok /\ (~last.valid \/ ~last.free)) =>
        /\ count = last.pre.count
        /\ ftp_server_thread = last.pre.thread
        /\ server_instance = last.pre.instance

\* C8 (as claimed): whenever a start with passive mode enabled has bound the
\* engine, every port of the passive range was looked up before and every
\* port of the range is available.
C8_PassiveRangeCheckedBeforeBind ==
    (last.op \in StartOps /\ last.bound # 0 /\ last.prange # {}) =>
        /\ last.prange \subseteq last.checked
        /\ last.pfree

\* C9: start on a manager that is not running, with a valid config whose
\* control port and passive ports are all free, returns True, and right
\* after it is_running() is true and the connection count is 0.
C9_StartSucceeds ==
    (last.op = "start" /\ ~last.pre.running
        /\ last.valid /\ last.free /\ last.pfree) =>
        /\ last.ok
        /\ is_running
        /\ get_connection_count = 0

C9_Witness ==
    /\ last.op = "start" /\ ~last.pre.running
    /\ last.valid /\ last.free /\ last.pfree
    /\ last.prange # {}
    /\ last.pre.count > 0

\* C10 (as claimed): from a successful stop of a running manager until the
\* next start, is_running() is false and the connection count is 0.
C10_CountStaysZeroAfterStop ==
    stopped => (~is_running /\ count = 0)

\* C11 (as claimed): while a server is running every on_connect raises the
\* connection count by exactly one, every on_disconnect of an open
\* connection lowers it by exactly one, and the callbacks that only log
\* leave it unchanged.
C11_CallbacksCountExactly ==
    /\ (last.op = "on_connect" /\ last.pre.running) => count = last.pre.count + 1
    /\ (last.op = "on_disconnect" /\ last.pre.running) => count = last.pre.count - 1
    /\ (last.op = "on_log_only" /\ last.pre.running) => count = last.pre.count

\* C12 (as claimed): two is_port_available calls for the same port made less
\* than TTL apart, the entry of the port not removed in between, return the
\* same result and the second performs no bind probe; a call made TTL or
\* more after the entry was recorded probes anew and stores the result with
\* a new timestamp.
C12_CallsWithinTTLAgree ==
    /\ (last.op = "check_port" /\ last.prev.op = "check_port"
            /\ last.prev.port = last.port /\ now - last.prev.at < cache_ttl
            /\ last.entry # NoEntry) =>
          (last.avail = last.prev.avail /\ last.probed = {})
    /\ (last.op = "check_port" /\ last.entry # NoEntry
            /\ now - last.entry.ts >= cache_ttl) =>
          (last.probed = {last.port}
           /\ cache[last.port] = [avail |-> last.free, ts |-> now])

\* C12 (amended): a call made less than TTL after the entry of the port was
\* recorded returns the recorded result, performs no bind probe and leaves
\* the entry as it is; a call made when the cache holds no entry of the port
\* or TTL or more after the entry was recorded probes anew, returns what the
\* probe found and stores it with the time of the call.
C12_FreshEntryAnswers ==
    /\ (last.op = "check_port" /\ last.entry # NoEntry
            /\ now - last.entry.ts < cache_ttl) =>
          (last.avail = last.entry.avail /\ last.probed = {}
           /\ cache[last.port] = last.entry)
    /\ (last.op = "check_port"
            /\ (last.entry = NoEntry \/ now - last.entry.ts >= cache_ttl)) =>
          (last.probed = {last.port} /\ last.avail = last.free
           /\ cache[last.port] = [avail |-> last.free, ts |-> now])

C12_Witness ==
    /\ last.op = "check_port" /\ last.entry # NoEntry
    /\ now - last.entry.ts = cache_ttl - 1
    /\ last.avail # last.free
    /\ last.probed = {}

\* C13 (as claimed): after every successful start and after every stop of a
\* running manager the port cache holds no entry, so a check made right
\* after a successful start does not answer "available" for the control port
\* the engine has just bound from a cached result.
C13_CacheInvalidatedByStartStop ==
    /\ (last.op \in StartOps /\ last.ok) =>
          /\ cache = <<>>
          /\ ~cache_is_port_available(cache, engines[last.bound].port).avail
    /\ (last.op = "stop" /\ last.pre.running) => cache = <<>>

\* C14: is_port_range_available(start, end) returns true exactly when
\* is_port_available is true for every port of start..end, both ends
\* included; it looks at the ports in increasing order up to and including
\* the first unavailable one, and probes or caches no port above that one.
C14_RangeIsConjunction ==
    last.op = "check_range" =>
        /\ last.avail = (\A p \in last.start..last.end : last.single[p])
        /\ last.checked = {p \in last.start..last.end :
                              \A q \in last.start..(p - 1) : last.single[q]}
        /\ last.probed \subseteq last.checked
        /\ DOMAIN cache = last.had \cup last.probed

C14_Witness ==
    /\ last.op = "check_range" /\ last.start < last.end
    /\ ~last.single[last.start] /\ last.single[last.end]
    /\ ~last.avail
    /\ last.probed = {last.start}
    /\ last.end \notin DOMAIN cache

\* C15 (as claimed): at every moment at most one serve thread started by the
\* manager is alive and at most one engine built by it holds a listener.
C15_AtMostOneEngine ==
    /\ Cardinality({e \in EngineIds : engines[e].alive}) <= 1
    /\ Cardinality({e \in EngineIds : engines[e].listening}) <= 1

\* no start call and no stop call is in progress
Quiescent == mpc.start = "idle" /\ mpc.stop = "idle"

\* C16 (as claimed): once concurrent start_server and stop_server calls have
\* all returned the manager is in a state that the calls run one after
\* another leave it in: the latest engine, when its serve thread is alive
\* and was not told to stop, is the one the thread reference holds, and a
\* thread the reference holds belongs to an engine that still listens and
\* was not told to stop.
C16_ConcurrentCallsSerialize ==
    Quiescent =>
        /\ (Len(engines) > 0 /\ engines[Len(engines)].alive
                /\ ~engines[Len(engines)].stop_event) =>
              ftp_server_thread = Len(engines)
        /\ ftp_server_thread # 0 =>
              (engines[ftp_server_thread].listening
               /\ ~engines[ftp_server_thread].stop_event)

\* C17: the read-modify-write-persist sequences of concurrent increment,
\* decrement and reset calls never overlap: at most one caller is inside a
\* call and it holds the lock, the value it is about to persist is the one
\* it computed, no update is lost (the count is the count at construction
\* or the last reset plus the increments minus the decrements that had
\* effect, so k increments alone raise it by exactly k), and the record a
\* call wrote holds the value that call computed.
C17_CounterCallsAreAtomic ==
    /\ Cardinality({t \in Callers : pc[t] # "idle"}) <= 1
    /\ \A t \in Callers : pc[t] # "idle" => lock = t
    /\ \A t \in Callers : pc[t] = "stored" => count = tmp[t]
    /\ count = base + nInc - (nDec - nFloor)
    /\ nDec = 0 => count = base + nInc
    /\ (last.op = "save" /\ last.ok) => record = <<last.value>>

C17_Witness ==
    /\ \E t \in Callers : pc[t] = "stored" /\ op[t] = "increment"
    /\ nInc >= 2 /\ nDec = 0
    /\ count = base + nInc
    /\ record # <<count>>

\* C18: when the write of the record fails during increment, decrement or
\* reset, the call still returns (the lock is free again, nothing is raised)
\* and the in-memory count holds the value the call computed: no rollback.
C18_SaveFailureIsSwallowed ==
    (last.op = "save" /\ ~last.ok) =>
        /\ AllIdle /\ lock = 0
        /\ count = last.value

C18_Witness ==
    /\ last.op = "save" /\ ~last.ok
    /\ count = last.value
    /\ count # load_count(record)

\* C19: right after a completed increment, decrement or reset whose write
\* did not fail, the count stored in the record equals the in-memory count.
C19_RecordFollowsCount ==
    (last.op = "save" /\ last.ok) => (record # NoRecord /\ record[1] = count)

C19_Witness ==
    /\ last.op = "save" /\ last.ok
    /\ record = <<count>>
    /\ nInc >= 1 /\ nDec >= 1 /\ count >= 1

\* C20 (as claimed): a newly constructed counter or manager reports a
\* connection count of 0 before any connection callback or counter call,
\* whatever the persisted record holds.
C20_FreshCountIsZero ==
    (nInc = 0 /\ nDec = 0 /\ AllIdle /\ last = NoCall /\ engines = <<>>
        /\ observed = base /\ ~dirty) =>
        (count = 0 /\ get_connection_count = 0)


\* C21 (as claimed): after a start that passed validation and returned
\* failure, the engine the attempt bound (if any) is not listening, neither
\* self.server_instance nor self.ftp_server_thread refers to it, the manager
\* is not running unless it was before, and a retry can bind the port.
C21_FailedStartRollsBack ==
    (last.op \in StartOps /\ ~last.ok /\ last.valid) =>
        /\ ~is_running \/ last.pre.running
        /\ last.bound # 0 =>
              /\ ~engines[last.bound].listening
              /\ server_instance # last.bound
              /\ ftp_server_thread # last.bound
              /\ port_free(engines[last.bound].port)

C24_ManagerCountIsCounterCount ==
    /\ get_connection_count = count
    /\ pyftp_get_connection_count = count

\* C25: for every config with port in 1..65535, an existing directory and,
\* when passive mode is on, passive_start and passive_end each in 1024..65535
\* with passive_start < passive_end, ConfigPanel.validate_config returns the
\* empty list and none of FTPServerManager._validate_config,
\* validate_passive_port_range, ConfigManager._validate_config raises.
C25_ValidConfigHasNoFailure ==
    (/\ last.op = "validate"
     /\ 1 <= last.cfg.port /\ last.cfg.port <= 65535
     /\ last.cfg.directory \in ExistingDirs
     /\ last.cfg.passive =>
           /\ 1024 <= last.cfg.passive_start /\ last.cfg.passive_start <= 65535
           /\ 1024 <= last.cfg.passive_end /\ last.cfg.passive_end <= 65535
           /\ last.cfg.passive_start < last.cfg.passive_end) =>
        /\ last.errors = <<>>
        /\ last.valid
        /\ last.raised = <<>>
        /\ last.config_raised = <<>>
        /\ last.cfg.passive => last.range_raised = <<>>

\* C25 happens: a config with the port at its upper limit and the passive
\* range at its lower limit was validated and accepted
C25_Witness ==
    /\ last.op = "validate"
    /\ last.cfg.port = 65535
    /\ last.cfg.passive
    /\ last.cfg.passive_start = 1024
    /\ last.cfg.passive_end > 1024
    /\ last.errors = <<>>
    /\ last.raised = <<>>

\* C26 (as claimed): for every config with passive mode on and
\* passive_start >= passive_end, the inverted-range failure is reported: it is
\* in the list ConfigPanel.validate_config returns, and it is the error that
\* validate_passive_port_range and ConfigManager._validate_config raise.
C26_InvertedRangeAlwaysReported ==
    (/\ last.op = "validate"
     /\ last.cfg.passive
     /\ last.cfg.passive_start >= last.cfg.passive_end) =>
        /\ \E i \in DOMAIN last.errors : last.errors[i] = "inverted-passive-range"
        /\ last.range_raised = <<"inverted-passive-range">>
        /\ last.config_raised = <<"inverted-passive-range">>

\* C27 (as claimed): the result of validation holds a failure for exactly the
\* rules the config violates, in the order port, directory, passive bounds,
\* inverted passive range: so for the list ConfigPanel.validate_config returns
\* and for what FTPServerManager._validate_config reports.
C27_AllRulesReported ==
    last.op = "validate" =>
        LET c == last.cfg
            violated ==
                (IF ~(1 <= c.port /\ c.port <= 65535) THEN <<"bad-port">> ELSE <<>>)
                \o (IF c.directory \notin ExistingDirs THEN <<"bad-directory">> ELSE <<>>)
                \o (IF c.passive /\ ~(1024 <= c.passive_start /\ c.passive_start <= 65535)
                    THEN <<"bad-passive-start">> ELSE <<>>)
                \o (IF c.passive /\ ~(1024 <= c.passive_end /\ c.passive_end <= 65535)
                    THEN <<"bad-passive-end">> ELSE <<>>)
                \o (IF c.passive /\ c.passive_start >= c.passive_end
                    THEN <<"inverted-passive-range">> ELSE <<>>)
        IN  /\ last.errors = violated
            /\ last.raised = violated

C29_SaveThenLoadRoundTrips ==
    (last.op = "load_config" /\ saved # None) =>
        /\ last.exc = "none"
        /\ last.ret = saved

\* C30: a serve thread whose stop event is set begins no serve_forever call:
\* it is inside the call it had begun, or at the loop test; and it terminates,
\* every serve_forever call returning, whatever connections the engine holds.
C30_StopEndsServeLoop ==
    /\ [][\A e \in EngineIds :
             (engines[e].stop_event /\ ~engines[e].serving) => ~engines'[e].serving]_vars
    /\ \A e \in 1..MaxEngines :
          (IF e \in EngineIds THEN engines[e].stop_event ELSE FALSE)
              ~> (IF e \in EngineIds THEN ~engines[e].alive ELSE FALSE)

\* C30 happens: stop_server returned while the serve thread was still inside
\* a serve_forever call, with connections open when the stop began
C30_Witness ==
    /\ last.op = "stop"
    /\ last.forced
    /\ last.pre.count > 0
    /\ engines[last.pre.thread].stop_event
    /\ engines[last.pre.thread].serving
    /\ engines[last.pre.thread].alive
\* C31: cleanup_expired removes exactly the entries whose age is the TTL
\* or more and keeps every fresher entry as it was, and every later
\* is_port_available and is_port_range_available call answers what it would
\* have answered had cleanup_expired never been called
C31_CleanupExpiredIsHousekeeping ==
    /\ last.op = "cleanup_expired" =>
          /\ DOMAIN cache = {k \in DOMAIN last.before : now - last.before[k].ts < cache_ttl}
          /\ \A k \in DOMAIN cache : cache[k] = last.before[k]
    /\ last.op \in {"check_port", "check_range"} => last.avail = last.uncleaned_avail

\* a port is asked about after cleanup_expired removed its entry
C31_Witness ==
    /\ last.op = "check_port"
    /\ last.entry = NoEntry
    /\ last.kept # NoEntry

\* C32: in the counter that keeps a dirty flag, every increment, decrement and
\* reset sets the flag, and a set flag leads to the count being written to the
\* persisted record with the flag false again
C32_DirtyCountIsEventuallyWritten ==
    /\ [][last'.op \in {"on_connect", "on_disconnect"} \/ count' # count => dirty']_vars
    /\ dirty ~> (~dirty /\ record = <<count>>)

\* the levels the entries of the level combo box stand for: All, Info,
\* Warning, Error
SelectedLevels(level_index) ==
    CASE level_index = 0 -> LogLevels
      [] level_index = 1 -> {"INFO"}
      [] level_index = 2 -> {"WARNING"}
      [] level_index = 3 -> {"ERROR", "CRITICAL"}

\* C33: filter_logs leaves in the view exactly the displayed lines whose level
\* is the selected one, in their order: INFO for Info, WARNING for Warning,
\* ERROR and CRITICAL for Error, every line for All
C33_FilterKeepsSelectedLevel ==
    last.op = "filter_logs" =>
        log_view = SelectSeq(last.before,
                             LAMBDA line : line.level \in SelectedLevels(last.level_index))

\* the ids of a sequence of lines
LineIds(lines) == [i \in 1..Len(lines) |-> lines[i].id]

\* C34: the messages given to append_log since the last clear_log are, each
\* once and in arrival order, the displayed lines followed by the pending
\* ones; an ERROR or CRITICAL message and a full batch are flushed at once,
\* pending messages wait for an active single-shot timer and are eventually
\* flushed or cleared; after clear_log the view and the buffer are empty, so
\* nothing appended before it is displayed later
C34_AppendedIsDisplayedOnce ==
    /\ [](LineIds(log_view) \o LineIds(log_buffer)
            = [i \in 1..(appended - cleared_upto) |-> cleared_upto + i])
    /\ [](last.op = "append_log"
            /\ (last.level \in {"ERROR", "CRITICAL"} \/ last.pending + 1 >= batch_size)
          => log_buffer = <<>>)
    /\ [](log_buffer # <<>> => buffer_timer = "active")
    /\ [](last.op = "clear_log" => log_view = <<>> /\ log_buffer = <<>>)
    /\ (log_buffer # <<>>) ~> (log_buffer = <<>>)

\* a full batch is flushed by the append that fills it, after an earlier
\* clear_log
C34_Witness ==
    /\ last.op = "append_log"
    /\ last.level = "INFO"
    /\ last.pending = batch_size - 1
    /\ cleared_upto > 0
    /\ Len(log_view) >= batch_size

\* C35: a start_server call that fails while a server is running leaves the
\* handler configuration the running engine's connections see (directory of
\* the authorizer, encoding, passive ports) as the successful start set it
C35_FailedStartKeepsRunningHandler ==
    [][(last'.op \in StartOps /\ ~last'.ok /\ is_running) => handler' = handler]_vars

\* the ports of the range the handler class holds in passive_ports; none
\* when it is None
HandlerPassivePorts ==
    IF handler.passive_ports = <<>> THEN {}
    ELSE handler.passive_ports[1] .. handler.passive_ports[2]

\* C36: after a successful start the passive_ports of the handler are
\* range(passive_start, passive_end + 1) of the config of that start when it
\* enables passive mode, and None when it does not
C36_PassivePortsFollowConfig ==
    (last.op \in StartOps /\ last.ok /\ last.bound # 0) => HandlerPassivePorts = last.prange

\* C37: when stop_server has returned True for a manager that was running,
\* the serve thread it supervised has terminated, and whenever is_running()
\* is false no serve thread this manager started is alive
C37_StoppedMeansThreadTerminated ==
    /\ (last.op = "stop" /\ last.ok /\ last.pre.running) =>
          ~engines[last.pre.thread].alive
    /\ ~is_running => \A e \in EngineIds : ~engines[e].alive

\* C38: an entry that is_port_available stores comes from a bind probe made
\* after the latest clear_cache returned, so the cache never holds the result
\* of a probe that preceded a clear
C38_NoEntryFromBeforeClear ==
    last.op = "cache_store" => ~last.cleared

\* C39: a close event that is not accepted leaves the application as it was:
\* the server running, the status timer active, the log handler attached to
\* the root logger, so that records logged while the window is open reach it
C39_RefusedCloseChangesNothing ==
    /\ (last.op = "close" /\ ~last.accepted) =>
          /\ is_running = last.pre.running
          /\ status_update_timer = last.pre.timer
          /\ log_handler = last.pre.log_handler
    /\ last.op = "log" => last.handled

\* C40: the records emitted through log_signal followed by the buffered ones
\* are exactly the records passed to emit, each once and in order, and every
\* buffered record is eventually emitted
C40_EveryRecordEmittedOnce ==
    /\ [](log_signal \o handler_buffer = [i \in 1..emit_calls |-> i])
    /\ (handler_buffer # <<>>) ~> (handler_buffer = <<>>)

====
